---- MODULE Spec2Model ----
(***************************************************************************)
(* A model of the ProPresenter protobuf library (src/src/lib/index.ts):    *)
(* the rich-text helpers rtfToText / textToRtf, the cue traversal          *)
(* getCueSlide / getCueText / setCueText, and readPresentation /           *)
(* writePresentation on top of the protobufjs reflection API.              *)
(*                                                                         *)
(* A JavaScript string or byte buffer is a sequence of characters, each    *)
(* character a one-character string.  An optional property (a?: T) is a    *)
(* sequence of length 0 (undefined / null) or 1 (the value).               *)
(***************************************************************************)
EXTENDS Integers, Sequences, FiniteSets, TLC

VARIABLES
    phase,      \* rich-text pipeline: "text" | "rtf" | "done" | "idle"
    origin,     \* "encoded": rtf comes from textToRtf(src); "raw": rtf was given
    src,        \* the plain text handed to textToRtf
    rtf,        \* the rich-text markup
    out,        \* the plain text rtfToText returned
    doc,        \* the document tree: the sequence of its cues (presentation.cues)
    before,     \* the document as it was when the last operation started
    op,         \* the last operation on the document, with what it returned
    step,       \* file round trip: "start" | "read" | "written" | "reread" |
                \* "readFailed" | "writeFailed" | "idle"; "tree" when the
                \* object to write is the caller's own
    input,      \* the bytes the file held at the start
    disk,       \* the bytes the file holds now
    onDisk,     \* whether there is a file at the path
    presentation, \* the object the last readPresentation returned, if any
    firstRead,  \* the object the first readPresentation returned, if any
    thrown,     \* the message of the Error the last call threw, "" if none
    gstep,      \* grouping: "start" | "grouped" | "changed" | "regrouped" | "idle"
    pres,       \* the presentation whose cues are grouped: cues and cueGroups
    byGroup,    \* the Map the last getCuesByGroup returned, in insertion order;
                \* a cue object is named by its index in pres.cues
    textsBefore, \* getCueText of every cue of pres when setCueText was called
    gop,        \* the setCueText call made on a cue of pres
    protoRoot,  \* the cached protobuf root: 0 (null) or the number of a Root
    roots,      \* the Roots constructed so far: the schema files loaded into each
    calls,      \* every call of loadProtoDefinitions / getMessageType: where it
                \* stands, the Root it was given and what that Root held then
    broken,     \* the schema files that cannot be loaded
    files,      \* batch: the paths given on the command line
    fileIndex,  \* batch: the position of the next file of the loop
    results,    \* batch: the results pushed so far
    warnings,   \* batch: the files a warning was printed for
    cstep,      \* creation: "start" | "created" | "uuid" | "idle"
    copts,      \* the options handed to createPresentation
    created,    \* the presentation createPresentation returned, if any
    ctext,      \* the last getCueText on a created cue: the cue and the text
    rnd,        \* the random source: what the calls of Math.random return
    lastUuid,   \* the value generateUuid returned, if any
    estep,      \* command line: "start" | "done" | "idle"
    command,    \* the command run: "edit" | "validate" | "none"
    argv,       \* the arguments and options of the command
    fsys,       \* the file system: what each path holds, if anything
    writes,     \* the paths fs.writeFile has written, in order
    console,    \* the lines printed, each with its stream
    exitCode    \* the exit code of the process

rtfVars == <<phase, origin, src, rtf, out>>

docVars == <<doc, before, op>>

fileVars == <<step, input, disk, onDisk, presentation, firstRead, thrown>>

groupVars == <<gstep, pres, byGroup, textsBefore, gop>>

loadVars == <<protoRoot, roots, calls, broken>>

batchVars == <<files, fileIndex, results, warnings>>

createVars == <<cstep, copts, created, ctext, rnd, lastUuid>>

cliVars == <<estep, command, argv, fsys, writes, console, exitCode>>

vars == <<phase, origin, src, rtf, out, doc, before, op,
          step, input, disk, onDisk, presentation, firstRead, thrown,
          gstep, pres, byGroup, textsBefore, gop,
          protoRoot, roots, calls, broken,
          files, fileIndex, results, warnings,
          cstep, copts, created, ctext, rnd, lastUuid,
          estep, command, argv, fsys, writes, console, exitCode>>

----------------------------------------------------------------------------
(* Bounds of the model *)

\* longest plain text handed to textToRtf
MaxLen == 3

\* most body tokens of a raw rich-text document
MaxTokens == 3

\* longest malformed markup handed to rtfToText
MaxMarkup == 4

\* most cue groups and cue identifiers, taken together, of a presentation
MaxGroupSize == 4

\* most fields a presentation file holds on the wire
MaxFields == 3

\* most actions and slide elements, taken together, of the cue whose shape
\* varies
MaxCueSize == 3

----------------------------------------------------------------------------
(* Characters and the regular-expression character classes *)

Lower == {"a","b","c","d","e","f","g","h","i","j","k","l","m",
          "n","o","p","q","r","s","t","u","v","w","x","y","z"}

Upper == {"A","B","C","D","E","F","G","H","I","J","K","L","M",
          "N","O","P","Q","R","S","T","U","V","W","X","Y","Z"}

Digit == {"0","1","2","3","4","5","6","7","8","9"}

\* [a-z] under the i flag
Letter == Lower \cup Upper

\* \w, which decides the word boundary \b
WordChar == Letter \cup Digit \cup {"_"}

\* \s, and what String.prototype.trim removes
WhiteSpace == {" ", "\n", "\t", "\r", "\f"}

\* [0-9a-f] under the i flag, with the value parseInt(.., 16) gives each digit
HexVal == [c \in Digit \cup {"a","b","c","d","e","f","A","B","C","D","E","F"} |->
            CASE c = "0" -> 0 [] c = "1" -> 1 [] c = "2" -> 2 [] c = "3" -> 3
              [] c = "4" -> 4 [] c = "5" -> 5 [] c = "6" -> 6 [] c = "7" -> 7
              [] c = "8" -> 8 [] c = "9" -> 9
              [] c \in {"a","A"} -> 10 [] c \in {"b","B"} -> 11
              [] c \in {"c","C"} -> 12 [] c \in {"d","D"} -> 13
              [] c \in {"e","E"} -> 14 [] c \in {"f","F"} -> 15]

\* the printable ASCII characters, code 32 first (the grave accent, code 96,
\* is written by its code)
Printable == <<" ","!","\"","#","$","%","&","'","(",")","*","+",",","-",".","/",
               "0","1","2","3","4","5","6","7","8","9",":",";","<","=",">","?",
               "@","A","B","C","D","E","F","G","H","I","J","K","L","M","N","O",
               "P","Q","R","S","T","U","V","W","X","Y","Z","[","\\","]","^","_",
               "u96","a","b","c","d","e","f","g","h","i","j","k","l","m","n","o",
               "p","q","r","s","t","u","v","w","x","y","z","{","|","}","~">>

\* String.fromCharCode(n) for a code unit 0..255; a character outside ASCII
\* is named by its code
fromCharCode(n) ==
    IF n >= 32 /\ n <= 126 THEN Printable[n - 31]
    ELSE IF n = 10 THEN "\n"
    ELSE IF n = 9 THEN "\t"
    ELSE IF n = 13 THEN "\r"
    ELSE IF n = 12 THEN "\f"
    ELSE "u" \o ToString(n)

----------------------------------------------------------------------------
(* String helpers *)

\* s has p at index i
StartsWithAt(s, i, p) ==
    /\ i + Len(p) - 1 <= Len(s)
    /\ \A k \in 1..Len(p) : s[i + k - 1] = p[k]

\* the least index j >= i with s[j] = c, or 0 when there is none
IndexOfFrom(s, i, c) ==
    IF \E j \in i..Len(s) : s[j] = c
    THEN CHOOSE j \in i..Len(s) : s[j] = c /\ \A k \in i..(j - 1) : s[k] # c
    ELSE 0

\* the least index j >= i with s[j] \notin S, or Len(s) + 1: where a greedy S* stops
RunEnd(s, i, S) ==
    IF \E j \in i..Len(s) : s[j] \notin S
    THEN CHOOSE j \in i..Len(s) : s[j] \notin S /\ \A k \in i..(j - 1) : s[k] \in S
    ELSE Len(s) + 1

\* s.replace(/c/g, r) for a single character c
RECURSIVE ReplaceChar(_, _, _)
ReplaceChar(s, c, r) ==
    IF s = <<>> THEN <<>>
    ELSE (IF Head(s) = c THEN r ELSE <<Head(s)>>) \o ReplaceChar(Tail(s), c, r)

\* the decimal digits of a natural number, as template interpolation prints it
RECURSIVE DecimalString(_)
DecimalString(n) ==
    IF n < 10 THEN <<Printable[n + 17]>>
    ELSE Append(DecimalString(n \div 10), Printable[(n % 10) + 17])

----------------------------------------------------------------------------
(* rtfToText: the chain of replacements, in the order of the code *)

\* "{\rtf1"
RtfHeader == <<"{", "\\", "r", "t", "f", "1">>

ParWord == <<"\\", "p", "a", "r">>

LineWord == <<"\\", "l", "i", "n", "e">>

FontTblOpen == <<"{", "\\", "f", "o", "n", "t", "t", "b", "l">>

ColorTblOpen == <<"{", "\\", "c", "o", "l", "o", "r", "t", "b", "l">>

StyleSheetOpen == <<"{", "\\", "s", "t", "y", "l", "e", "s", "h", "e", "e", "t">>

\* .replace(/^\{\\rtf1[^}]*\}?/, ''): at the start only; [^}]* runs to the
\* first "}" (or to the end), and that "}" goes too
StripHeader(s) ==
    IF StartsWithAt(s, 1, RtfHeader)
    THEN LET j == IndexOfFrom(s, Len(RtfHeader) + 1, "}")
         IN  IF j = 0 THEN <<>> ELSE SubSeq(s, j + 1, Len(s))
    ELSE s

\* .replace(/\\par\b/g, '\n') and .replace(/\\line\b/g, '\n'): w ends in a
\* word character, so \b holds at the end of the string or before a
\* character outside \w
RECURSIVE ReplaceBreakFrom(_, _, _, _)
ReplaceBreakFrom(s, w, i, acc) ==
    IF i > Len(s) THEN acc
    ELSE IF /\ StartsWithAt(s, i, w)
            /\ (i + Len(w) > Len(s) \/ s[i + Len(w)] \notin WordChar)
         THEN ReplaceBreakFrom(s, w, i + Len(w), Append(acc, "\n"))
         ELSE ReplaceBreakFrom(s, w, i + 1, Append(acc, s[i]))

ReplaceBreak(s, w) == ReplaceBreakFrom(s, w, 1, <<>>)

\* .replace(/\{\\fonttbl[^}]*\}/g, '') and its two siblings: from the opener
\* to the first "}" after it; without a "}" there is no match
RECURSIVE RemoveGroupFrom(_, _, _, _)
RemoveGroupFrom(s, open, i, acc) ==
    IF i > Len(s) THEN acc
    ELSE LET j == IF StartsWithAt(s, i, open)
                  THEN IndexOfFrom(s, i + Len(open), "}")
                  ELSE 0
         IN  IF j # 0
             THEN RemoveGroupFrom(s, open, j + 1, acc)
             ELSE RemoveGroupFrom(s, open, i + 1, Append(acc, s[i]))

RemoveGroup(s, open) == RemoveGroupFrom(s, open, 1, <<>>)

\* the end (exclusive) of the match of /\\[a-z]+[-]?\d*\s?/i that starts at
\* the backslash s[i]
ControlWordEnd(s, i) ==
    LET a == RunEnd(s, i + 1, Letter)
        b == IF a <= Len(s) /\ s[a] = "-" THEN a + 1 ELSE a
        c == RunEnd(s, b, Digit)
    IN  IF c <= Len(s) /\ s[c] \in WhiteSpace THEN c + 1 ELSE c

\* .replace(/\\[a-z]+[-]?\d*\s?/gi, '')
RECURSIVE StripControlWordsFrom(_, _, _)
StripControlWordsFrom(s, i, acc) ==
    IF i > Len(s) THEN acc
    ELSE IF s[i] = "\\" /\ i + 1 <= Len(s) /\ s[i + 1] \in Letter
         THEN StripControlWordsFrom(s, ControlWordEnd(s, i), acc)
         ELSE StripControlWordsFrom(s, i + 1, Append(acc, s[i]))

StripControlWords(s) == StripControlWordsFrom(s, 1, <<>>)

IsNotBrace(c) == c \notin {"{", "}"}

\* .replace(/[{}]/g, '')
RemoveBraces(s) == SelectSeq(s, IsNotBrace)

\* .replace(/\s+/g, ' ')
RECURSIVE CollapseWhiteSpaceFrom(_, _, _)
CollapseWhiteSpaceFrom(s, i, acc) ==
    IF i > Len(s) THEN acc
    ELSE IF s[i] \in WhiteSpace
         THEN CollapseWhiteSpaceFrom(s, RunEnd(s, i, WhiteSpace), Append(acc, " "))
         ELSE CollapseWhiteSpaceFrom(s, i + 1, Append(acc, s[i]))

CollapseWhiteSpace(s) == CollapseWhiteSpaceFrom(s, 1, <<>>)

\* .trim()
Trim(s) ==
    LET a == RunEnd(s, 1, WhiteSpace)
    IN  IF a > Len(s) THEN <<>>
        ELSE LET b == CHOOSE j \in a..Len(s) :
                        /\ s[j] \notin WhiteSpace
                        /\ \A k \in (j + 1)..Len(s) : s[k] \in WhiteSpace
             IN  SubSeq(s, a, b)

\* text.replace(/\\'([0-9a-f]{2})/gi, (_, hex) => String.fromCharCode(parseInt(hex, 16)))
RECURSIVE DecodeHexFrom(_, _, _)
DecodeHexFrom(s, i, acc) ==
    IF i > Len(s) THEN acc
    ELSE IF /\ i + 3 <= Len(s)
            /\ s[i] = "\\" /\ s[i + 1] = "'"
            /\ s[i + 2] \in DOMAIN HexVal /\ s[i + 3] \in DOMAIN HexVal
         THEN DecodeHexFrom(s, i + 4,
                  Append(acc, fromCharCode(16 * HexVal[s[i + 2]] + HexVal[s[i + 3]])))
         ELSE DecodeHexFrom(s, i + 1, Append(acc, s[i]))

\* a hex decoder that gives up on an escape cut short (a faulty variant)
DecodeHexStrict(s) ==
    IF \E i \in 1..Len(s) :
          /\ s[i] = "\\" /\ i < Len(s) /\ s[i + 1] = "'"
          /\ ~(/\ i + 3 <= Len(s)
               /\ s[i + 2] \in DOMAIN HexVal /\ s[i + 3] \in DOMAIN HexVal)
    THEN <<"SyntaxError">>
    ELSE DecodeHexFrom(s, 1, <<>>)

DecodeHex(s) == DecodeHexFrom(s, 1, <<>>)

\* rtfToText that resolves the hex escapes first (a faulty variant)
rtfToTextEscapesFirst(rtfData) ==
    Trim(CollapseWhiteSpace(RemoveBraces(StripControlWords(
        RemoveGroup(RemoveGroup(RemoveGroup(
            ReplaceBreak(ReplaceBreak(StripHeader(DecodeHex(rtfData)), ParWord), LineWord),
            FontTblOpen), ColorTblOpen), StyleSheetOpen)))))

\* rtfToText(rtfData): the three input types all end as the same string
rtfToText(rtfData) ==
    DecodeHex(Trim(CollapseWhiteSpace(RemoveBraces(StripControlWords(
        RemoveGroup(RemoveGroup(RemoveGroup(
            ReplaceBreak(ReplaceBreak(StripHeader(rtfData), ParWord), LineWord),
            FontTblOpen), ColorTblOpen), StyleSheetOpen))))))

----------------------------------------------------------------------------
(* textToRtf *)

\* "Arial", the default fontName
DefaultFontName == <<"A", "r", "i", "a", "l">>

\* the default fontSize
DefaultFontSize == 48

\* escapes that leave the braces as they are (a faulty variant)
EscapeBackslashOnly(text) ==
    ReplaceChar(ReplaceChar(text,
        "\\", <<"\\", "\\">>),
        "\n", <<"\\", "p", "a", "r", " ">>)

\* the four escapes, in the order of the code
Escape(text) ==
    ReplaceChar(ReplaceChar(ReplaceChar(ReplaceChar(text,
        "\\", <<"\\", "\\">>),
        "{", <<"\\", "{">>),
        "}", <<"\\", "}">>),
        "\n", <<"\\", "p", "a", "r", " ">>)

\* `{\rtf1\ansi\deff0{\fonttbl{\f0 ${fontName};}}\f0\fs${fontSize * 2} ${escaped}}`
textToRtf(text, fontName, fontSize) ==
    <<"{", "\\", "r", "t", "f", "1", "\\", "a", "n", "s", "i",
      "\\", "d", "e", "f", "f", "0",
      "{", "\\", "f", "o", "n", "t", "t", "b", "l", "{", "\\", "f", "0", " ">>
    \o fontName \o <<";", "}", "}", "\\", "f", "0", "\\", "f", "s">>
    \o DecimalString(fontSize * 2) \o <<" ">> \o Escape(text) \o <<"}">>

\* {\rtf1\ansi\deff0{\fonttbl{\f0 Arial;}}\f0\fs48 <body>}
RawDoc(body) ==
    <<"{", "\\", "r", "t", "f", "1", "\\", "a", "n", "s", "i",
      "\\", "d", "e", "f", "f", "0",
      "{", "\\", "f", "o", "n", "t", "t", "b", "l", "{", "\\", "f", "0", " ",
      "A", "r", "i", "a", "l", ";", "}", "}",
      "\\", "f", "0", "\\", "f", "s", "4", "8", " ">> \o body \o <<"}">>

\* Buffer.from(textToRtf(text))
NewRtfData(text) == textToRtf(text, DefaultFontName, DefaultFontSize)

\* the texts handed to setCueText
NewTexts == {<<"H", "i">>, <<"a", "\n", "b">>, <<>>}

\* the rich text of the text elements of the documents tried
RtfOne == textToRtf(<<"O", "n", "e">>, DefaultFontName, DefaultFontSize)

RtfTwo == RawDoc(<<"T", "w", "o">>)

\* the texts of the grouped cues, and the text set on one of them
LineOne == <<"L", "i", "n", "e", " ", "o", "n", "e">>

LineTwo == <<"L", "i", "n", "e", " ", "t", "w", "o">>

Changed == <<"C", "h", "a", "n", "g", "e", "d">>

\* the texts handed to setCueText on a grouped cue
GroupNewTexts == {Changed, <<"a", "\n", "b">>}

\* every byte string a text element of these documents can come to hold
RtfPool ==
    {<<>>, RtfOne, RtfTwo} \cup {NewRtfData(t) : t \in NewTexts}
    \cup {NewRtfData(t) : t \in {LineOne, LineTwo} \cup GroupNewTexts}

\* rtfToText, tabulated over RtfPool: each byte string is decoded once
PlainTextOf == [r \in RtfPool |-> rtfToText(r)]

----------------------------------------------------------------------------
(* Slide text utilities.  The tree is the one the interfaces declare:       *)
(* Cue.actions[].slide?.presentation?.elements[].element?.text?.rtfData.    *)
(* A truthiness test on an object or a Buffer is a presence test: an empty  *)
(* Buffer is truthy.                                                        *)

Present(o) == o # <<>>

\* element.element?.text?.rtfData
RtfDataOf(element) ==
    IF Present(element.element) /\ Present(element.element[1].text)
    THEN element.element[1].text[1].rtfData
    ELSE <<>>

\* if (element.element?.text?.rtfData)
HasRtfData(element) == Present(RtfDataOf(element))

\* slide.elements || []
ElementsOf(slide) == IF Present(slide.elements) THEN slide.elements[1] ELSE <<>>

\* getSlideTextElements(slide)
getSlideTextElements(slide) ==
    LET els == SelectSeq(ElementsOf(slide), HasRtfData)
    IN  [i \in 1..Len(els) |-> els[i].element[1].text[1]]

IsNonEmpty(t) == Len(t) > 0

\* texts.join('\n')
RECURSIVE Join(_)
Join(texts) ==
    IF texts = <<>> THEN <<>>
    ELSE IF Len(texts) = 1 THEN texts[1]
    ELSE texts[1] \o <<"\n">> \o Join(Tail(texts))

\* getSlideText that decodes the first text element only (a faulty variant)
getSlideTextFirstOnly(slide) ==
    LET tes == getSlideTextElements(slide)
    IN  IF tes = <<>> THEN <<>> ELSE PlainTextOf[tes[1].rtfData[1]]

\* getSlideText(slide); rtfToText is looked up in its table PlainTextOf
getSlideText(slide) ==
    LET tes == getSlideTextElements(slide)
        texts == [i \in 1..Len(tes) |-> PlainTextOf[tes[i].rtfData[1]]]
    IN  Join(SelectSeq(texts, IsNonEmpty))

\* action.slide?.presentation
IsSlideAction(action) ==
    Present(action.slide) /\ Present(action.slide[1].presentation)

\* the index of the element setSlideText writes, or 0
FirstTextIndex(slide) ==
    LET els == ElementsOf(slide)
    IN  IF \E e \in 1..Len(els) : HasRtfData(els[e])
        THEN CHOOSE e \in 1..Len(els) :
                /\ HasRtfData(els[e])
                /\ \A d \in 1..(e - 1) : ~HasRtfData(els[d])
        ELSE 0

\* a text search that goes on to the later slides of the cue (a faulty variant)
CueSlideIndexWithText(cue) ==
    IF \E a \in 1..Len(cue.actions) :
            /\ IsSlideAction(cue.actions[a])
            /\ FirstTextIndex(cue.actions[a].slide[1].presentation[1]) # 0
    THEN CHOOSE a \in 1..Len(cue.actions) :
            /\ IsSlideAction(cue.actions[a])
            /\ FirstTextIndex(cue.actions[a].slide[1].presentation[1]) # 0
            /\ \A b \in 1..(a - 1) :
                  ~(/\ IsSlideAction(cue.actions[b])
                    /\ FirstTextIndex(cue.actions[b].slide[1].presentation[1]) # 0)
    ELSE 0

\* the index of the action getCueSlide returns the slide of, or 0 for null
CueSlideIndex(cue) ==
    IF \E a \in 1..Len(cue.actions) : IsSlideAction(cue.actions[a])
    THEN CHOOSE a \in 1..Len(cue.actions) :
            /\ IsSlideAction(cue.actions[a])
            /\ \A b \in 1..(a - 1) : ~IsSlideAction(cue.actions[b])
    ELSE 0

\* getCueSlide(cue): the slide, or null
getCueSlide(cue) ==
    LET a == CueSlideIndex(cue)
    IN  IF a = 0 THEN <<>> ELSE cue.actions[a].slide[1].presentation

\* getCueText(cue)
getCueText(cue) ==
    LET slide == getCueSlide(cue)
    IN  IF ~Present(slide) THEN <<>> ELSE getSlideText(slide[1])

\* setSlideText that writes every text element (a faulty variant)
setSlideTextAll(slide, text) ==
    LET e == FirstTextIndex(slide)
    IN  IF e = 0 THEN [ok |-> FALSE, slide |-> slide]
        ELSE [ok |-> TRUE,
              slide |-> [slide EXCEPT !.elements[1] =
                  [i \in 1..Len(@) |->
                      IF HasRtfData(@[i])
                      THEN [@[i] EXCEPT !.element[1].text[1].rtfData = <<NewRtfData(text)>>]
                      ELSE @[i]]]]

\* setSlideText that also resets the text payload's attributes (a faulty variant)
setSlideTextFreshPayload(slide, text) ==
    LET e == FirstTextIndex(slide)
    IN  IF e = 0 THEN [ok |-> FALSE, slide |-> slide]
        ELSE [ok |-> TRUE,
              slide |-> [slide EXCEPT !.elements[1][e].element[1].text[1] =
                  [attributes |-> "default", verticalAlignment |-> 0,
                   rtfData |-> <<NewRtfData(text)>>]]]

\* setSlideText that reports success also when it found no text element (a
\* faulty variant)
setSlideTextAlwaysTrue(slide, text) ==
    LET e == FirstTextIndex(slide)
    IN  IF e = 0 THEN [ok |-> TRUE, slide |-> slide]
        ELSE [ok |-> TRUE,
              slide |-> [slide EXCEPT !.elements[1][e].element[1].text[1].rtfData =
                                          <<NewRtfData(text)>>]]

\* setSlideText that reports success and writes nothing (a faulty variant)
setSlideTextDropped(slide, text) ==
    [ok |-> FirstTextIndex(slide) # 0, slide |-> slide]

\* setSlideText(slide, text): the flag returned, and the slide as the call
\* leaves it
setSlideText(slide, text) ==
    LET e == FirstTextIndex(slide)
    IN  IF e = 0 THEN [ok |-> FALSE, slide |-> slide]
        ELSE [ok |-> TRUE,
              slide |-> [slide EXCEPT !.elements[1][e].element[1].text[1].rtfData =
                                          <<NewRtfData(text)>>]]

\* setCueText(cue, text): the flag returned, and the cue as the call leaves it
setCueText(cue, text) ==
    LET a == CueSlideIndex(cue)
    IN  IF a = 0 THEN [ok |-> FALSE, cue |-> cue]
        ELSE LET r == setSlideText(cue.actions[a].slide[1].presentation[1], text)
             IN  [ok |-> r.ok,
                  cue |-> [cue EXCEPT !.actions[a].slide[1].presentation[1] = r.slide]]

----------------------------------------------------------------------------
(* The rich-text codec as a state machine: a plain text is encoded and the  *)
(* markup decoded again, or a given markup is decoded.                      *)

\* all sequences over S of length at most n
RECURSIVE SeqsUpTo(_, _)
SeqsUpTo(S, n) ==
    IF n = 0 THEN {<<>>}
    ELSE LET shorter == SeqsUpTo(S, n - 1)
         IN  shorter \cup {Append(t, c) : t \in shorter, c \in S}

\* the concatenation of a sequence of sequences
RECURSIVE Flatten(_)
Flatten(ss) == IF ss = <<>> THEN <<>> ELSE Head(ss) \o Flatten(Tail(ss))

\* the characters of the plain texts tried
TextChars == {"a", "1", " ", "\n", "\\", "{", "}"}

Texts == SeqsUpTo(TextChars, MaxLen)

FontNames == {DefaultFontName, <<"T", "i", "m", "e", "s">>, <<"A", "}">>}

FontSizes == {DefaultFontSize, 12}

\* the pieces of the body of a given rich-text document
BodyTokens == {<<"H", "i">>, <<"t", "h", "e", "r", "e">>, <<" ">>,
               <<" ", "t", "h", "e", "r", "e">>,
               ParWord, LineWord, <<"\\", "p", "a", "r", "d">>}

RawDocs == {RawDoc(Flatten(toks)) : toks \in SeqsUpTo(BodyTokens, MaxTokens)}

\* the characters of the malformed markup tried
MarkupChars == {"{", "}", "\\", "'", "a", "4"}

\* markup without preamble, with unbalanced braces, a lone backslash or an
\* escape cut short, the empty input, and a preamble that is never closed
MalformedDocs ==
    SeqsUpTo(MarkupChars, MaxMarkup)
    \cup {RtfHeader, RtfHeader \o <<"a">>,
          <<"{">> \o FontTblOpen \o <<"a">>}

\* a font table of one entry and of two, a color table and a style sheet
FontTblOne == FontTblOpen \o
    <<"{", "\\", "f", "0", " ", "A", "r", "i", "a", "l", ";", "}", "}">>

FontTblTwo == FontTblOpen \o
    <<"{", "\\", "f", "0", " ", "A", "r", "i", "a", "l", ";", "}",
      "{", "\\", "f", "1", " ", "T", "i", "m", "e", "s", ";", "}", "}">>

ColorTbl == ColorTblOpen \o
    <<";", "\\", "r", "e", "d", "2", "5", "5", ";", "}">>

StyleSheet == StyleSheetOpen \o
    <<"{", "\\", "s", "0", " ", "N", "o", "r", "m", "a", "l", ";", "}", "}">>

Tables == {FontTblOne, FontTblTwo, ColorTbl, StyleSheet}

\* a document with the given tables after its header words
TableDoc(tables, body) ==
    RtfHeader \o <<"\\", "a", "n", "s", "i">> \o tables
    \o <<"\\", "f", "0", "\\", "f", "s", "4", "8", " ">> \o body \o <<"}">>

TableBodies == {<<"H", "i">>, <<"H", "i", " ", "t", "h", "e", "r", "e">>}

TableDocs ==
    {TableDoc(Flatten(ts), body) : ts \in SeqsUpTo(Tables, 1), body \in TableBodies}

\* the escapes of a backslash, of the two braces and of a space, and words
BackslashEscape == <<"\\", "'", "5", "c">>

EscapeTokens == {<<"H", "i">>, <<"p", "a", "r">>, BackslashEscape,
                 <<"\\", "'", "7", "B">>, <<"\\", "'", "7", "d">>,
                 <<"\\", "'", "2", "0">>}

EscapeDocs == {RawDoc(Flatten(toks)) : toks \in SeqsUpTo(EscapeTokens, MaxTokens)}

RtfIdle ==
    /\ phase = "idle" /\ origin = "none"
    /\ src = <<>> /\ rtf = <<>> /\ out = <<>>

RtfInit ==
    \/ /\ phase = "text" /\ origin = "encoded"
       /\ src \in Texts
       /\ rtf = <<>> /\ out = <<>>
    \/ /\ phase = "rtf" /\ origin = "raw"
       /\ src = <<>>
       /\ rtf \in RawDocs \cup MalformedDocs \cup TableDocs \cup EscapeDocs
       /\ out = <<>>

\* a call of textToRtf
TextToRtfStep ==
    /\ phase = "text"
    /\ \E fontName \in FontNames, fontSize \in FontSizes :
           rtf' = textToRtf(src, fontName, fontSize)
    /\ phase' = "rtf"
    /\ UNCHANGED <<origin, src, out>>
    /\ UNCHANGED docVars
    /\ UNCHANGED loadVars
    /\ UNCHANGED batchVars
    /\ UNCHANGED fileVars
    /\ UNCHANGED groupVars
    /\ UNCHANGED createVars
    /\ UNCHANGED cliVars

\* a call of rtfToText
RtfToTextStep ==
    /\ phase = "rtf"
    /\ out' = rtfToText(rtf)
    /\ phase' = "done"
    /\ UNCHANGED <<origin, src, rtf>>
    /\ UNCHANGED docVars
    /\ UNCHANGED loadVars
    /\ UNCHANGED batchVars
    /\ UNCHANGED fileVars
    /\ UNCHANGED groupVars
    /\ UNCHANGED createVars
    /\ UNCHANGED cliVars

RtfNext == TextToRtfStep \/ RtfToTextStep

----------------------------------------------------------------------------------------------------------------------------------------
(* The documents tried: one cue of every shape up to MaxCueSize actions and *)
(* slide elements, alone or beside a second cue.                            *)

\* all sequences over S of length exactly n
RECURSIVE SeqsOfLen(_, _)
SeqsOfLen(S, n) ==
    IF n = 0 THEN {<<>>}
    ELSE {Append(t, c) : t \in SeqsOfLen(S, n - 1), c \in S}

\* a text payload (TextElement) holding the bytes r
TextPayload(attrs, r) ==
    [attributes |-> attrs, verticalAlignment |-> 1, rtfData |-> r]

\* a slide element (SlideElement) around the graphics element g
Element(g) == [element |-> g, buildIn |-> "none"]

\* no graphics element; a shape; a text box without rtfData; one with an
\* empty Buffer; two with text
ElementVariants ==
    { Element(<<>>),
      Element(<<[name |-> "shape", text |-> <<>>]>>),
      Element(<<[name |-> "box", text |-> <<TextPayload("plain", <<>>)>>]>>),
      Element(<<[name |-> "box", text |-> <<TextPayload("plain", << <<>> >>)>>]>>),
      Element(<<[name |-> "title", text |-> <<TextPayload("bold", <<RtfOne>>)>>]>>),
      Element(<<[name |-> "body", text |-> <<TextPayload("chords", <<RtfTwo>>)>>]>>) }

\* the slides with exactly k elements
SlidesWith(k) ==
    {[uuid |-> "slide", elements |-> <<es>>] : es \in SeqsOfLen(ElementVariants, k)}
    \cup (IF k = 0 THEN {[uuid |-> "slide", elements |-> <<>>]} ELSE {})

\* the actions of size n: the action itself and the n - 1 elements of its
\* slide; an action of another kind has no slide
ActionsOfSize(n) ==
    {[type |-> "presentationSlide", slide |-> <<[presentation |-> <<s>>]>>] :
        s \in SlidesWith(n - 1)}
    \cup (IF n = 1
          THEN {[type |-> "media", slide |-> <<>>],
                [type |-> "prop", slide |-> <<[presentation |-> <<>>]>>]}
          ELSE {})

\* the sequences of actions of size n in all
RECURSIVE ActionSeqsOfSize(_)
ActionSeqsOfSize(n) ==
    IF n = 0 THEN {<<>>}
    ELSE UNION {{<<act>> \o rest : act \in ActionsOfSize(k),
                                   rest \in ActionSeqsOfSize(n - k)} : k \in 1..n}

Cue(as) == [name |-> "cue", isEnabled |-> TRUE, actions |-> as]

Cues == UNION {{Cue(as) : as \in ActionSeqsOfSize(n)} : n \in 0..MaxCueSize}

\* the second cue of a document: one with a text element, one without actions
OtherCues ==
    { [name |-> "other", isEnabled |-> TRUE,
       actions |-> <<[type |-> "presentationSlide",
                      slide |-> <<[presentation |->
                          <<[uuid |-> "slide",
                             elements |-> << <<Element(
                                 <<[name |-> "body",
                                    text |-> <<TextPayload("chords", <<RtfTwo>>)>>]>>)>> >>]>>]>>]>>],
      [name |-> "other", isEnabled |-> FALSE, actions |-> <<>>] }

Documents ==
    {<<>>} \cup {<<c>> : c \in Cues}
    \cup {<<c, x>> : c \in Cues, x \in OtherCues}
    \cup {<<x, c>> : c \in Cues, x \in OtherCues}

NoOp == [kind |-> "none", cue |-> 0, text |-> <<>>, ok |-> FALSE, got |-> <<>>]

DocIdle == doc = <<>> /\ before = <<>> /\ op = NoOp

\* a tree of the shape the interfaces declare
DocInit ==
    /\ doc \in Documents
    /\ before = doc
    /\ op = NoOp

\* getCueText(cues[c])
GetCueText ==
    \E c \in 1..Len(doc) :
        /\ op' = [kind |-> "get", cue |-> c, text |-> <<>>, ok |-> TRUE,
                  got |-> getCueText(doc[c])]
        /\ before' = doc
        /\ UNCHANGED doc
        /\ UNCHANGED rtfVars
        /\ UNCHANGED loadVars
        /\ UNCHANGED batchVars
        /\ UNCHANGED fileVars
        /\ UNCHANGED groupVars
        /\ UNCHANGED createVars
        /\ UNCHANGED cliVars

\* setCueText(cues[c], t): the cue is changed in place
SetCueText ==
    \E c \in 1..Len(doc), t \in NewTexts :
        LET r == setCueText(doc[c], t)
        IN  /\ doc' = [doc EXCEPT ![c] = r.cue]
            /\ before' = doc
            /\ op' = [kind |-> "set", cue |-> c, text |-> t, ok |-> r.ok, got |-> <<>>]
            /\ UNCHANGED rtfVars
            /\ UNCHANGED loadVars
            /\ UNCHANGED batchVars
            /\ UNCHANGED fileVars
            /\ UNCHANGED groupVars
            /\ UNCHANGED createVars
            /\ UNCHANGED cliVars

----------------------------------------------------------------------------
(* readPresentation / writePresentation.                                    *)
(*                                                                          *)
(* A file is the sequence of the fields of its rv.data.Presentation message *)
(* as they stand on the wire: field number, wire type (0 varint, 2 length   *)
(* delimited, 7 not a wire type) and content (text: the characters of a     *)
(* string; ints: the varints of a nested message, or raw bytes).  Of the    *)
(* schema the model keeps `string name = 3` and `Timestamp last_date_used   *)
(* = 4`, a Timestamp being {int64 seconds = 1; int32 nanos = 2}; field      *)
(* number 99 is in no version of the schema.                                *)
(*                                                                          *)
(* The codec is protobufjs' reflection API, which is not part of the        *)
(* repository.  What the model takes from it: Type.decode skips a field     *)
(* whose number the type does not declare (Reader.skipType, which throws on *)
(* a wire type it does not know) and keeps the last occurrence of a field;  *)
(* Type.toObject copies the declared fields only, with {longs: String}      *)
(* writes a 64-bit integer as its decimal string and with {defaults: true}  *)
(* gives an unset string the value "" and an unset message the value null;  *)
(* Type.verify answers "<field>: integer|Long expected" for a 64-bit field  *)
(* that holds neither a number nor a Long, prefixed with the path of the    *)
(* enclosing field; Type.encode writes the declared fields that are set, in *)
(* field-number order.                                                      *)

NameField == 3

LastDateUsedField == 4

\* the value of a string of decimal digits
RECURSIVE ParseDecimal(_)
ParseDecimal(digits) ==
    IF digits = <<>> THEN 0
    ELSE 10 * ParseDecimal(SubSeq(digits, 1, Len(digits) - 1))
         + HexVal[digits[Len(digits)]]

\* PresentationType.decode(buffer), from field i on: the message so far, or
\* the failure of Reader.skipType
RECURSIVE DecodeFrom(_, _, _)
DecodeFrom(buffer, i, message) ==
    IF i > Len(buffer) THEN [ok |-> TRUE, message |-> message]
    ELSE LET f == buffer[i]
         IN  IF f.num = NameField
             THEN DecodeFrom(buffer, i + 1, [message EXCEPT !.name = <<f.text>>])
             ELSE IF f.num = LastDateUsedField
             THEN DecodeFrom(buffer, i + 1,
                      [message EXCEPT !.lastDateUsed =
                          <<[seconds |-> f.ints[1], nanos |-> f.ints[2]]>>])
             ELSE IF f.wire \in {0, 2}
             THEN DecodeFrom(buffer, i + 1, message)
             ELSE [ok |-> FALSE, message |-> message]

decode(buffer) == DecodeFrom(buffer, 1, [name |-> <<>>, lastDateUsed |-> <<>>])

\* {longs: String}: a 64-bit integer becomes its decimal string
StringLong(n) == [type |-> "string", value |-> DecimalString(n)]

\* PresentationType.toObject(message, {longs: String, bytes: Buffer,
\* defaults: true})
toObject(message) ==
    [name |-> IF message.name = <<>> THEN <<>> ELSE message.name[1],
     lastDateUsed |->
        IF message.lastDateUsed = <<>> THEN <<>>
        ELSE <<[seconds |-> StringLong(message.lastDateUsed[1].seconds),
                nanos   |-> message.lastDateUsed[1].nanos]>>]

\* Timestamp.verify
verifyTimestamp(timestamp) ==
    IF timestamp.seconds.type \notin {"number", "Long"}
    THEN "seconds: integer|Long expected"
    ELSE ""

\* PresentationType.verify, were it to accept every object (a faulty variant)
verifyAccepting(p) == ""

\* PresentationType.verify(presentation): the reason the object is not a
\* valid message, "" (null) if it is one
verify(p) ==
    IF p.lastDateUsed # <<>> /\ verifyTimestamp(p.lastDateUsed[1]) # ""
    THEN "lastDateUsed." \o verifyTimestamp(p.lastDateUsed[1])
    ELSE ""

\* the int64 a Writer puts on the wire for a number, a Long or a string
LongValue(long) ==
    IF long.type = "string" THEN ParseDecimal(long.value) ELSE long.value

\* PresentationType.encode(PresentationType.create(presentation)).finish()
encode(p) ==
    <<[num |-> NameField, wire |-> 2, text |-> p.name, ints |-> <<>>]>>
    \o (IF p.lastDateUsed = <<>> THEN <<>>
        ELSE <<[num |-> LastDateUsedField, wire |-> 2, text |-> <<>>,
                ints |-> <<LongValue(p.lastDateUsed[1].seconds),
                           p.lastDateUsed[1].nanos>>]>>)

\* the fields a file may hold
FieldPool ==
    {[num |-> NameField, wire |-> 2, text |-> t, ints |-> <<>>] :
        t \in {<<>>, <<"A">>}}
    \cup {[num |-> LastDateUsedField, wire |-> 2, text |-> <<>>, ints |-> <<s, n>>] :
        s \in {0, 1700000000}, n \in {0, 1}}
    \cup {[num |-> 99, wire |-> 2, text |-> <<>>, ints |-> b] :
        b \in {<<1>>, <<2, 3>>}}
    \cup {[num |-> 99, wire |-> 7, text |-> <<>>, ints |-> <<>>]}

Files == SeqsUpTo(FieldPool, MaxFields)

FileIdle ==
    /\ step = "idle" /\ input = <<>> /\ disk = <<>> /\ onDisk = FALSE
    /\ presentation = <<>> /\ firstRead = <<>> /\ thrown = ""

FileInit ==
    /\ step = "start"
    /\ input \in Files
    /\ disk = input
    /\ onDisk = TRUE
    /\ presentation = <<>> /\ firstRead = <<>> /\ thrown = ""

\* a 64-bit integer as a caller may write it
Longs ==
    {[type |-> "number", value |-> n] : n \in {0, 1700000000}}
    \cup {[type |-> "Long", value |-> n] : n \in {0, 1700000000}}
    \cup {StringLong(n) : n \in {0, 1700000000}}
    \cup {[type |-> "boolean", value |-> b] : b \in {TRUE}}

\* the objects a caller hands to writePresentation
Trees ==
    {[name |-> n, lastDateUsed |-> d] :
        n \in {<<>>, <<"A">>},
        d \in {<<>>} \cup {<<[seconds |-> s, nanos |-> k]>> :
                               s \in Longs, k \in {0, 1}}}

\* a caller's object is to be written to a path that holds a file or none
WriteInit ==
    /\ step = "tree"
    /\ presentation \in {<<t>> : t \in Trees}
    /\ onDisk \in BOOLEAN
    /\ input \in (IF onDisk THEN SeqsUpTo(FieldPool, 1) ELSE {<<>>})
    /\ disk = input
    /\ firstRead = <<>> /\ thrown = ""

\* readPresentation(filePath), on the file as first found or as written
ReadPresentation ==
    /\ step \in {"start", "written"}
    /\ LET r == decode(disk)
       IN  IF r.ok
           THEN /\ presentation' = <<toObject(r.message)>>
                /\ firstRead' = IF step = "start" THEN presentation' ELSE firstRead
                /\ step' = IF step = "start" THEN "read" ELSE "reread"
                /\ thrown' = ""
           ELSE /\ step' = "readFailed"
                /\ thrown' = "invalid wire type"
                /\ UNCHANGED <<presentation, firstRead>>
    /\ UNCHANGED <<input, disk, onDisk>>
    /\ UNCHANGED rtfVars
    /\ UNCHANGED loadVars
    /\ UNCHANGED batchVars
    /\ UNCHANGED docVars
    /\ UNCHANGED groupVars
    /\ UNCHANGED createVars
    /\ UNCHANGED cliVars

\* writePresentation(filePath, presentation) with the object just read, or
\* with the caller's own
WritePresentation ==
    /\ step \in {"read", "tree"}
    /\ LET errMsg == verify(presentation[1])
       IN  IF errMsg # ""
           THEN /\ thrown' = "Invalid presentation: " \o errMsg
                /\ step' = "writeFailed"
                /\ UNCHANGED <<disk, onDisk>>
           ELSE /\ disk' = encode(presentation[1])
                /\ onDisk' = TRUE
                /\ step' = "written"
                /\ thrown' = ""
    /\ UNCHANGED <<input, presentation, firstRead>>
    /\ UNCHANGED rtfVars
    /\ UNCHANGED loadVars
    /\ UNCHANGED batchVars
    /\ UNCHANGED docVars
    /\ UNCHANGED groupVars
    /\ UNCHANGED createVars
    /\ UNCHANGED cliVars

FileNext == ReadPresentation \/ WritePresentation

----------------------------------------------------------------------------
(* getCuesByGroup.  A Map is the sequence of its entries in insertion order; *)
(* a cue object is named by its index in presentation.cues, so that a cue    *)
(* pushed into an entry is the document's own object.                        *)

\* cue.uuid?.string (undefined and '' are both falsy)
UuidString(cue) == IF Present(cue.uuid) THEN cue.uuid[1].string ELSE ""

\* cueMap.get(id): the cue last set under the key, 0 for undefined
CueMapGet(cues, id) ==
    LET hits == {i \in 1..Len(cues) : UuidString(cues[i]) # "" /\ UuidString(cues[i]) = id}
    IN  IF hits = {} THEN 0
        ELSE CHOOSE i \in hits : \A j \in hits : j <= i

IsFound(ref) == ref # 0

\* resolution that stops at the first identifier without a cue (a faulty
\* variant)
ResolveIdsUntilDangling(cues, ids) ==
    LET refs == [i \in 1..Len(ids) |-> CueMapGet(cues, ids[i].string)]
        bad  == {i \in 1..Len(ids) : refs[i] = 0}
    IN  IF bad = {} THEN refs
        ELSE SubSeq(refs, 1, (CHOOSE i \in bad : \A j \in bad : i <= j) - 1)

\* resolution that lists the cues last identifier first (a faulty variant)
ResolveIdsReversed(cues, ids) ==
    LET refs == [i \in 1..Len(ids) |-> CueMapGet(cues, ids[Len(ids) + 1 - i].string)]
    IN  SelectSeq(refs, IsFound)

\* the inner loop: the cues of a group's identifiers, those without a cue
\* left out
ResolveIds(cues, ids) ==
    LET refs == [i \in 1..Len(ids) |-> CueMapGet(cues, ids[i].string)]
    IN  SelectSeq(refs, IsFound)

\* group.group?.name || 'Unnamed'
GroupName(group) ==
    IF Present(group.group) /\ group.group[1].name # ""
    THEN group.group[1].name
    ELSE "Unnamed"

\* result.set(key, value): the value of an entry the Map has is replaced
\* where the entry stands, a new entry goes last
MapSet(map, key, value) ==
    IF \E i \in 1..Len(map) : map[i].key = key
    THEN [i \in 1..Len(map) |->
            IF map[i].key = key THEN [key |-> key, value |-> value] ELSE map[i]]
    ELSE Append(map, [key |-> key, value |-> value])

\* the outer loop, from group g on
RECURSIVE GroupFrom(_, _, _)
GroupFrom(p, g, result) ==
    IF g > Len(p.cueGroups) THEN result
    ELSE GroupFrom(p, g + 1,
             MapSet(result, GroupName(p.cueGroups[g]),
                    ResolveIds(p.cues, p.cueGroups[g].cueIdentifiers)))

getCuesByGroup(p) == GroupFrom(p, 1, <<>>)

\* a cue with one text element holding the markup of text
TextCue(uuid, text) ==
    [uuid |-> uuid, name |-> "cue",
     actions |-> <<[type |-> "presentationSlide",
                    slide |-> <<[presentation |->
                        <<[uuid |-> "slide",
                           elements |-> << <<Element(
                               <<[name |-> "body",
                                  text |-> <<TextPayload("plain",
                                      <<NewRtfData(text)>>)>>]>>)>> >>]>>]>>]>>]

\* a cue with two text elements
TwoTextCue(uuid) ==
    [uuid |-> uuid, name |-> "cue",
     actions |-> <<[type |-> "presentationSlide",
                    slide |-> <<[presentation |->
                        <<[uuid |-> "slide",
                           elements |-> << <<
                               Element(<<[name |-> "title",
                                   text |-> <<TextPayload("bold", <<RtfOne>>)>>]>>),
                               Element(<<[name |-> "body",
                                   text |-> <<TextPayload("plain", <<RtfTwo>>)>>]>>)
                               >> >>]>>]>>]>>]

\* the cue lists tried: none; the two cues of the example; two cues under one
\* identifier; a cue without identifier, one with an empty one and one
\* without actions; a cue with two text elements
CueLists ==
    { <<>>,
      <<TextCue(<<[string |-> "u1"]>>, LineOne), TextCue(<<[string |-> "u2"]>>, LineTwo)>>,
      <<TextCue(<<[string |-> "u1"]>>, LineOne), TextCue(<<[string |-> "u1"]>>, LineTwo)>>,
      <<TextCue(<<>>, LineOne), TextCue(<<[string |-> ""]>>, LineTwo),
        [uuid |-> <<[string |-> "u2"]>>, name |-> "cue", actions |-> <<>>]>>,
      <<TwoTextCue(<<[string |-> "u1"]>>), TextCue(<<[string |-> "u2"]>>, LineTwo)>> }

\* the identifiers a group may list: "u9" names no cue
CueIds == {"u1", "u2", "u9", ""}

\* group.group: missing, without a name, or named
GroupHeads == {<<>>, <<[name |-> ""]>>, <<[name |-> "Verse 1"]>>, <<[name |-> "Chorus"]>>}

\* the sequences of cue groups of size n: a group counts 1, each of its
\* identifiers 1
RECURSIVE GroupSeqsOfSize(_)
GroupSeqsOfSize(n) ==
    IF n = 0 THEN {<<>>}
    ELSE UNION {{<<[group |-> h, cueIdentifiers |-> [i \in 1..k |-> [string |-> ids[i]]]]>>
                     \o rest :
                   h \in GroupHeads, ids \in SeqsOfLen(CueIds, k),
                   rest \in GroupSeqsOfSize(n - 1 - k)} : k \in 0..(n - 1)}

Presentations ==
    {[cues |-> cs, cueGroups |-> gs] :
        cs \in CueLists,
        gs \in UNION {GroupSeqsOfSize(n) : n \in 0..MaxGroupSize}}

NoGroupOp == [cue |-> 0, text |-> <<>>, ok |-> FALSE]

GroupIdle ==
    /\ gstep = "idle" /\ pres = [cues |-> <<>>, cueGroups |-> <<>>]
    /\ byGroup = <<>> /\ textsBefore = <<>> /\ gop = NoGroupOp

GroupInit ==
    /\ gstep = "start"
    /\ pres \in Presentations
    /\ byGroup = <<>> /\ textsBefore = <<>> /\ gop = NoGroupOp

\* getCuesByGroup(presentation), before and after the change
GetCuesByGroup ==
    /\ gstep \in {"start", "changed"}
    /\ byGroup' = getCuesByGroup(pres)
    /\ gstep' = IF gstep = "start" THEN "grouped" ELSE "regrouped"
    /\ UNCHANGED <<pres, textsBefore, gop>>
    /\ UNCHANGED rtfVars
    /\ UNCHANGED loadVars
    /\ UNCHANGED batchVars
    /\ UNCHANGED docVars
    /\ UNCHANGED fileVars
    /\ UNCHANGED createVars
    /\ UNCHANGED cliVars

\* setCueText(cue, t) on a cue taken from the Map getCuesByGroup returned
SetGroupedCueText ==
    /\ gstep = "grouped"
    /\ \E e \in 1..Len(byGroup) :
       \E k \in 1..Len(byGroup[e].value), t \in GroupNewTexts :
           LET c == byGroup[e].value[k]
               r == setCueText(pres.cues[c], t)
           IN  /\ pres' = [pres EXCEPT !.cues[c] = r.cue]
               /\ gop' = [cue |-> c, text |-> t, ok |-> r.ok]
    /\ textsBefore' = [i \in 1..Len(pres.cues) |-> getCueText(pres.cues[i])]
    /\ gstep' = "changed"
    /\ UNCHANGED byGroup
    /\ UNCHANGED rtfVars
    /\ UNCHANGED loadVars
    /\ UNCHANGED batchVars
    /\ UNCHANGED docVars
    /\ UNCHANGED fileVars
    /\ UNCHANGED createVars
    /\ UNCHANGED cliVars

GroupNext == GetCuesByGroup \/ SetGroupedCueText

----------------------------------------------------------------------------
(* loadProtoDefinitions / getMessageType.                                   *)
(*                                                                          *)
(* The calls made in one process interleave at their awaits only: what a    *)
(* call does between two awaits is one step.  A Root is the set of the      *)
(* schema files loaded into it, a file being named by its position in       *)
(* protoFiles; the files a .proto imports are left out (they can only make  *)
(* a Root hold more, earlier).                                              *)

\* the number of entries of protoFiles
NumProtoFiles == 12

ProtoFiles == 1 .. NumProtoFiles

\* 'presentation.proto', which declares rv.data.Presentation
PresentationFile == 1

\* the calls of one process
MaxCalls == 2

Calls == 1 .. MaxCalls

\* every file loads; the proto directory is missing; presentation.proto is
BrokenSets == {{}, ProtoFiles, {PresentationFile}}

NotCalled == [at |-> "start", file |-> 0, root |-> 0, seen |-> {}]

NoCall == [at |-> "unused", file |-> 0, root |-> 0, seen |-> {}]

\* the call returns root: what the caller is given, and what it holds then
Returned(root, held) == [at |-> "done", file |-> 0, root |-> root, seen |-> held]

\* `if (protoRoot)`, were the cache never consulted (a faulty variant)
NeverCached(cache) == FALSE

\* `if (protoRoot)`
IsCached(cache) == cache # 0

\* root.load(file), its failure caught and dropped
LoadInto(held, file, unloadable) ==
    IF file \in unloadable THEN held ELSE held \cup {file}

\* root.lookupType('rv.data.Presentation') finds the type
LookupFinds(held) == PresentationFile \in held

LoadIdle ==
    /\ protoRoot = 0 /\ roots = <<>>
    /\ calls = [p \in Calls |-> NoCall]
    /\ broken = {}

LoadInit ==
    /\ protoRoot = 0 /\ roots = <<>>
    /\ calls = [p \in Calls |-> NotCalled]
    /\ broken \in BrokenSets

\* loadProtoDefinitions() up to its first await, or to its early return
LoadProtoDefinitions(p) ==
    /\ calls[p].at = "start"
    /\ IF IsCached(protoRoot)
       THEN /\ calls' = [calls EXCEPT ![p] = Returned(protoRoot, roots[protoRoot])]
            /\ UNCHANGED <<protoRoot, roots>>
       ELSE /\ roots' = Append(roots, {})
            /\ protoRoot' = Len(roots) + 1
            /\ calls' = [calls EXCEPT ![p] = [@ EXCEPT !.at = "loading", !.file = 1]]
    /\ UNCHANGED broken
    /\ UNCHANGED rtfVars
    /\ UNCHANGED docVars
    /\ UNCHANGED fileVars
    /\ UNCHANGED groupVars
    /\ UNCHANGED batchVars
    /\ UNCHANGED createVars
    /\ UNCHANGED cliVars

\* one turn of the loop over protoFiles: the awaited load settles; after the
\* last one the call returns protoRoot
LoadFile(p) ==
    /\ calls[p].at = "loading"
    /\ LET file == calls[p].file
           held == LoadInto(roots[protoRoot], file, broken)
       IN  /\ roots' = [roots EXCEPT ![protoRoot] = held]
           /\ calls' = [calls EXCEPT ![p] =
                  IF file = NumProtoFiles
                  THEN Returned(protoRoot, held)
                  ELSE [@ EXCEPT !.file = file + 1]]
    /\ UNCHANGED <<protoRoot, broken>>
    /\ UNCHANGED rtfVars
    /\ UNCHANGED docVars
    /\ UNCHANGED fileVars
    /\ UNCHANGED groupVars
    /\ UNCHANGED batchVars
    /\ UNCHANGED createVars
    /\ UNCHANGED cliVars

\* getMessageType('rv.data.Presentation') once its await of
\* loadProtoDefinitions resumes, which is before any other load settles
GetMessageType(p) ==
    /\ calls[p].at = "done"
    /\ calls' = [calls EXCEPT ![p] =
           [@ EXCEPT !.at = IF LookupFinds(calls[p].seen)
                            THEN "type" ELSE "noSuchType"]]
    /\ UNCHANGED <<protoRoot, roots, broken>>
    /\ UNCHANGED rtfVars
    /\ UNCHANGED docVars
    /\ UNCHANGED fileVars
    /\ UNCHANGED groupVars
    /\ UNCHANGED batchVars
    /\ UNCHANGED createVars
    /\ UNCHANGED cliVars

LoadNext ==
    \E p \in Calls : LoadProtoDefinitions(p) \/ LoadFile(p) \/ GetMessageType(p)

----------------------------------------------------------------------------
(* The batch command: one readPresentation per file, one after the other.   *)
(*                                                                          *)
(* A path is the sequence of its segments.  Of a result the model keeps     *)
(* file and name; ccli and category are not among the fields the model      *)
(* keeps of the schema.                                                     *)

\* most files on one command line
MaxBatch == 3

SongPath == <<"songs", "a.pro">>

PlainPath == <<"b.pro">>

GonePath == <<"gone.pro">>

BadPath == <<"songs", "old", "bad.pro">>

Paths == {SongPath, PlainPath, GonePath, BadPath}

\* what fs.readFile finds at a path, if the file is there
DiskOf(path) ==
    IF path = SongPath
    THEN <<(<<[num |-> NameField, wire |-> 2, text |-> <<"A">>, ints |-> <<>>],
              [num |-> 99, wire |-> 2, text |-> <<>>, ints |-> <<1>>]>>)>>
    ELSE IF path = PlainPath
    THEN <<(<<[num |-> LastDateUsedField, wire |-> 2, text |-> <<>>,
               ints |-> <<1700000000, 0>>]>>)>>
    ELSE IF path = BadPath
    THEN <<(<<[num |-> NameField, wire |-> 2, text |-> <<"A">>, ints |-> <<>>],
              [num |-> 99, wire |-> 7, text |-> <<>>, ints |-> <<>>]>>)>>
    ELSE <<>>

\* path.basename(file)
basename(path) == path[Len(path)]

\* the loop over protoFiles run to its end with no other call in between
RECURSIVE LoadFrom(_, _, _)
LoadFrom(held, file, unloadable) ==
    IF file > NumProtoFiles THEN held
    ELSE LoadFrom(LoadInto(held, file, unloadable), file + 1, unloadable)

\* readPresentation(filePath) on a Root that holds the files `held`
readPresentation(held, path) ==
    IF ~LookupFinds(held)
    THEN [ok |-> FALSE, message |-> "no such type: rv.data.Presentation"]
    ELSE IF DiskOf(path) = <<>>
    THEN [ok |-> FALSE, message |-> "ENOENT: no such file or directory"]
    ELSE LET r == decode(DiskOf(path)[1])
         IN  IF r.ok
             THEN [ok |-> TRUE, presentation |-> toObject(r.message)]
             ELSE [ok |-> FALSE, message |-> "invalid wire type"]

\* the catch of the loop, were it to start the list afresh (a faulty variant)
AfterFailureDropsResults(list) == <<>>

\* the catch of the loop: a warning is printed, results is left as it is
AfterFailure(list) == list

BatchIdle ==
    /\ files = <<>> /\ fileIndex = 0 /\ results = <<>> /\ warnings = <<>>

BatchInit ==
    /\ files \in SeqsUpTo(Paths, MaxBatch)
    /\ fileIndex = 1
    /\ results = <<>> /\ warnings = <<>>
    /\ protoRoot = 0 /\ roots = <<>>
    /\ calls = [p \in Calls |-> NoCall]
    /\ broken \in BrokenSets

\* one turn of `for (const file of files)`
ProcessFile ==
    /\ fileIndex >= 1 /\ fileIndex <= Len(files)
    /\ LET file == files[fileIndex]
           cached == IsCached(protoRoot)
           root == IF cached THEN protoRoot ELSE Len(roots) + 1
           all == IF cached THEN roots
                  ELSE Append(roots, LoadFrom({}, 1, broken))
           r == readPresentation(all[root], file)
       IN  /\ protoRoot' = root
           /\ roots' = all
           /\ IF r.ok
              THEN /\ results' = Append(results,
                          [file |-> basename(file), name |-> r.presentation.name])
                   /\ UNCHANGED warnings
              ELSE /\ results' = AfterFailure(results)
                   /\ warnings' = Append(warnings, file)
    /\ fileIndex' = fileIndex + 1
    /\ UNCHANGED <<files, calls, broken>>
    /\ UNCHANGED rtfVars
    /\ UNCHANGED docVars
    /\ UNCHANGED fileVars
    /\ UNCHANGED groupVars
    /\ UNCHANGED createVars
    /\ UNCHANGED cliVars

BatchNext == ProcessFile

----------------------------------------------------------------------------
(* generateUuid.                                                            *)
(*                                                                          *)
(* Math.random() returns a number of [0, 1).  The random source is the      *)
(* sequence of the numbers its calls return, here the multiples of          *)
(* 1/RandomDenominator that start at seed and go on in steps of stride, so  *)
(* that every value stands at every place of the template in some source.   *)

\* the values of Math.random() are the multiples of 1 / RandomDenominator
RandomDenominator == 32

RandomStrides == {0, 1, 7, 11}

RandomSources ==
    {[seed |-> a, stride |-> b] : a \in 0 .. RandomDenominator - 1, b \in RandomStrides}

\* the numerator of the number call k of Math.random() returns, k from 0
Random(source, k) == (source.seed + k * source.stride) % RandomDenominator

\* 'xxxxxxxx-xxxx-4xxx-yxxx-xxxxxxxxxxxx'
Template ==
    <<"x", "x", "x", "x", "x", "x", "x", "x", "-",
      "x", "x", "x", "x", "-",
      "4", "x", "x", "x", "-",
      "y", "x", "x", "x", "-",
      "x", "x", "x", "x", "x", "x", "x", "x", "x", "x", "x", "x">>

\* v.toString(16) for v in 0..15
HexDigits == <<"0", "1", "2", "3", "4", "5", "6", "7", "8", "9",
               "a", "b", "c", "d", "e", "f">>

LowerCase == <<"a", "b", "c", "d", "e", "f", "g", "h", "i", "j", "k", "l", "m",
               "n", "o", "p", "q", "r", "s", "t", "u", "v", "w", "x", "y", "z">>

UpperCase == <<"A", "B", "C", "D", "E", "F", "G", "H", "I", "J", "K", "L", "M",
               "N", "O", "P", "Q", "R", "S", "T", "U", "V", "W", "X", "Y", "Z">>

\* c.toUpperCase() for one character
toUpperCase(c) ==
    IF \E i \in 1..Len(LowerCase) : LowerCase[i] = c
    THEN UpperCase[CHOOSE i \in 1..Len(LowerCase) : LowerCase[i] = c]
    ELSE c

\* the callback of replace, were "y" treated as "x" is (a faulty variant)
ReplacementAnyDigit(c, numerator) ==
    toUpperCase(HexDigits[((numerator * 16) \div RandomDenominator) + 1])

\* the callback of replace for the character c of the template, Math.random()
\* having returned numerator / RandomDenominator: r = Math.random() * 16 | 0,
\* v = r for "x" and r & 0x3 | 0x8 for "y"
Replacement(c, numerator) ==
    LET r == (numerator * 16) \div RandomDenominator
        v == IF c = "x" THEN r ELSE (r % 4) + 8
    IN  toUpperCase(HexDigits[v + 1])

\* how many characters of the template up to place i the pattern /[xy]/g hits
Hits(i) == Cardinality({j \in 1..i : Template[j] \in {"x", "y"}})

\* the calls of Math.random() one generateUuid makes
DrawsPerUuid == Hits(Len(Template))

\* generateUuid(), `first` calls of Math.random() having been made before
generateUuid(source, first) ==
    [string |->
        [i \in 1..Len(Template) |->
            IF Template[i] \in {"x", "y"}
            THEN Replacement(Template[i], Random(source, first + Hits(i) - 1))
            ELSE Template[i]]]

NoSource == [seed |-> 0, stride |-> 0]

NoOptions == [title |-> "", sections |-> <<>>]

CreateIdle ==
    /\ cstep = "idle" /\ copts = NoOptions /\ created = <<>> /\ ctext = <<>>
    /\ rnd = NoSource /\ lastUuid = <<>>

UuidInit ==
    /\ cstep = "uuid" /\ copts = NoOptions /\ created = <<>> /\ ctext = <<>>
    /\ rnd \in RandomSources
    /\ lastUuid = <<>>

\* a call of generateUuid, the first or a later one of the process
GenerateUuid ==
    /\ cstep = "uuid"
    /\ \E calls_before \in {0, 1, 5} :
           lastUuid' = <<generateUuid(rnd, calls_before * DrawsPerUuid)>>
    /\ UNCHANGED <<cstep, copts, created, ctext, rnd>>
    /\ UNCHANGED rtfVars
    /\ UNCHANGED docVars
    /\ UNCHANGED fileVars
    /\ UNCHANGED groupVars
    /\ UNCHANGED loadVars
    /\ UNCHANGED batchVars
    /\ UNCHANGED cliVars

UuidNext == GenerateUuid

----------------------------------------------------------------------------
(* createPresentation.                                                      *)
(*                                                                          *)
(* Of the tree createPresentation builds the model keeps the identifiers,   *)
(* the names, the nesting of cue, action, slide and element, the text       *)
(* payload with its customAttributes and rtfData, the cue groups and the    *)
(* arrangement; bounds, colours, fonts and the other constant properties    *)
(* are left out.  The identifiers are those generateUuid makes from the     *)
(* random source, in the order of its calls.                                *)

\* most sections of a presentation
MaxSections == 2

\* most slides of a section
MaxSlides == 2

\* most chords of a slide
MaxChords == 3

\* DEFAULT_FONT.size
CreateFontSize == 72

CreateText == <<"H", "i">>

\* a slide given as a string, and one given as a SlideInput without chords
PlainSlideInputs ==
    {[text |-> CreateText, chords |-> <<>>, isString |-> TRUE],
     [text |-> <<>>, chords |-> <<>>, isString |-> FALSE]}

\* the chords of a slide: any positions of the text, in any order
ChordPool ==
    {[position |-> n, chord |-> c] : n \in 0 .. Len(CreateText), c \in {"F", "Am"}}

\* a SlideInput with its chords property set
ChordSlideInputs ==
    {[text |-> CreateText, chords |-> <<cs>>, isString |-> FALSE] :
        cs \in SeqsUpTo(ChordPool, MaxChords)}

\* the name of section s: the second name is used again if there are more
SectionName(s) == IF s = 1 THEN "Verse 1" ELSE "Chorus"

\* up to n sections of up to m slides each
SectionsOver(inputs, n, m) ==
    {[s \in 1..Len(lists) |-> [name |-> SectionName(s), slides |-> lists[s]]] :
        lists \in SeqsUpTo(SeqsUpTo(inputs, m), n)}

\* the options tried: presentations of plain slides, and presentations of
\* one slide with chords
OptionsTried ==
    {[title |-> "Song", sections |-> ss] :
        ss \in SectionsOver(PlainSlideInputs, MaxSections, MaxSlides)}
    \cup {[title |-> "Song", sections |-> <<[name |-> "Verse 1", slides |-> <<sl>>]>>] :
        sl \in ChordSlideInputs}

\* the random sources tried: one that repeats itself, two that do not
CreateSources ==
    {[seed |-> 0, stride |-> 0], [seed |-> 1, stride |-> 1], [seed |-> 3, stride |-> 7]}

\* the calls of generateUuid one createPresentation can make, from 0
UuidCalls == 0 .. (MaxSections * (1 + 4 * MaxSlides) + 1)

\* what each call of generateUuid returns under each source
UuidTable ==
    [source \in CreateSources |->
        [n \in UuidCalls |-> generateUuid(source, n * DrawsPerUuid)]]

\* the value of call n of generateUuid, n from 0
UuidOfCall(source, n) == UuidTable[source][n]

\* the chords as they are given (a faulty variant of the sort)
Unsorted(chords) == chords

\* [...chords].sort((a, b) => a.position - b.position): a stable sort
RECURSIVE SortByPosition(_)
SortByPosition(chords) ==
    IF chords = <<>> THEN <<>>
    ELSE LET rest == SortByPosition(SubSeq(chords, 1, Len(chords) - 1))
             last == chords[Len(chords)]
             k == Cardinality({i \in 1..Len(rest) : rest[i].position <= last.position})
         IN  SubSeq(rest, 1, k) \o <<last>> \o SubSeq(rest, k + 1, Len(rest))

\* the customAttributes createTextElement builds
CustomAttributes(text, chords) ==
    IF Present(chords) /\ Len(chords[1]) > 0
    THEN LET sortedChords == SortByPosition(chords[1])
         IN  [i \in 1..Len(sortedChords) |->
                 [range |-> [start |-> sortedChords[i].position,
                             end   |-> IF i + 1 <= Len(sortedChords)
                                       THEN sortedChords[i + 1].position
                                       ELSE Len(text)],
                  chord |-> <<sortedChords[i].chord>>]]
    ELSE <<[range |-> [start |-> 0, end |-> Len(text)], chord |-> <<>>]>>

\* createTextElement(text, options, chords), its generateUuid being call n
createTextElement(text, chords, source, n) ==
    [uuid |-> <<UuidOfCall(source, n)>>,
     name |-> text,
     text |-> <<TextPayload([customAttributes |-> CustomAttributes(text, chords)],
                            <<textToRtf(text, DefaultFontName, CreateFontSize)>>)>>]

\* createSlide(text, options, chords): calls n and n + 1 of generateUuid
createSlide(text, chords, source, n) ==
    [elements |-> << <<Element(<<createTextElement(text, chords, source, n)>>)>> >>,
     uuid |-> <<UuidOfCall(source, n + 1)>>]

\* createCue(name, slideText, options, chords): calls n to n + 3 of
\* generateUuid.  The slide is the baseSlide of the object put under
\* action.slide.presentation, which has no elements property of its own.
createCue(name, slideText, chords, source, n) ==
    LET presentationSlide ==
            [baseSlide |-> <<createSlide(slideText, chords, source, n)>>,
             elements |-> <<>>]
        action ==
            [uuid |-> <<UuidOfCall(source, n + 2)>>,
             type |-> "presentationSlide",
             slide |-> <<[presentation |-> <<presentationSlide>>]>>]
    IN  [uuid |-> <<UuidOfCall(source, n + 3)>>,
         name |-> name,
         actions |-> <<action>>,
         isEnabled |-> TRUE]

\* the calls of generateUuid made for the sections before section s
RECURSIVE CallsBefore(_, _)
CallsBefore(sections, s) ==
    IF s <= 1 THEN 0
    ELSE CallsBefore(sections, s - 1) + 1 + 4 * Len(sections[s - 1].slides)

\* the cues of section s, in slide order
SectionCues(sections, s, source) ==
    [i \in 1..Len(sections[s].slides) |->
        createCue(sections[s].name \o " - Slide " \o ToString(i),
                  sections[s].slides[i].text,
                  sections[s].slides[i].chords,
                  source,
                  CallsBefore(sections, s) + 1 + 4 * (i - 1))]

\* the identifiers of all the cues but the last (a faulty variant)
IdentifiersButLast(cues) ==
    [i \in 1..(Len(cues) - 1) |-> cues[i].uuid[1]]

\* cueIdentifiers.push(cue.uuid!) for every cue of the section
Identifiers(cues) == [i \in 1..Len(cues) |-> cues[i].uuid[1]]

\* the cue group of section s
SectionGroup(sections, s, source) ==
    [group |-> <<[uuid |-> <<UuidOfCall(source, CallsBefore(sections, s))>>,
                  name |-> sections[s].name]>>,
     cueIdentifiers |-> Identifiers(SectionCues(sections, s, source))]

\* createPresentation(options)
createPresentation(options, source) ==
    LET sections == options.sections
        n == CallsBefore(sections, Len(sections) + 1)
        groups == [s \in 1..Len(sections) |-> SectionGroup(sections, s, source)]
    IN  [uuid |-> <<UuidOfCall(source, n)>>,
         name |-> options.title,
         cues |-> Flatten([s \in 1..Len(sections) |-> SectionCues(sections, s, source)]),
         cueGroups |-> groups,
         arrangements |->
            <<[uuid |-> <<UuidOfCall(source, n + 1)>>,
               name |-> "Default",
               groupIdentifiers |-> [s \in 1..Len(groups) |-> groups[s].group[1].uuid[1]]]>>]

CreateInit ==
    /\ cstep = "start"
    /\ copts \in OptionsTried
    /\ rnd \in CreateSources
    /\ created = <<>> /\ ctext = <<>> /\ lastUuid = <<>>

\* createPresentation(options) in a fresh process
CreatePresentation ==
    /\ cstep = "start"
    /\ created' = <<createPresentation(copts, rnd)>>
    /\ cstep' = "created"
    /\ UNCHANGED <<copts, ctext, rnd, lastUuid>>
    /\ UNCHANGED rtfVars
    /\ UNCHANGED docVars
    /\ UNCHANGED fileVars
    /\ UNCHANGED groupVars
    /\ UNCHANGED loadVars
    /\ UNCHANGED batchVars
    /\ UNCHANGED cliVars

\* getCueText(presentation.cues[c]) on the presentation created
GetCreatedCueText ==
    /\ cstep = "created"
    /\ \E c \in 1..Len(created[1].cues) :
           ctext' = <<[cue |-> c, got |-> getCueText(created[1].cues[c])]>>
    /\ UNCHANGED <<cstep, copts, created, rnd, lastUuid>>
    /\ UNCHANGED rtfVars
    /\ UNCHANGED docVars
    /\ UNCHANGED fileVars
    /\ UNCHANGED groupVars
    /\ UNCHANGED loadVars
    /\ UNCHANGED batchVars
    /\ UNCHANGED cliVars

CreateNext == CreatePresentation \/ GetCreatedCueText

----------------------------------------------------------------------------
(* The edit and validate commands of the command line (src/src/cli.ts).     *)
(* A file of the file system is the wire-level fields of its message and,   *)
(* beside them, its cues and cue groups as the cue traversal sees them.  A  *)
(* path is a string; an option that was not given is the empty sequence.    *)

\* most cues in a file the commands are run on
MaxEditCues == 2

InPath == "in.pro"

OutPath == "out.pro"

MissingPath == "gone.pro"

CliPaths == {InPath, OutPath, MissingPath}

\* parseInt(string, 10): leading white space, a sign, the longest run of
\* digits; NaN when there is no digit
parseInt(string) ==
    LET from == RunEnd(string, 1, WhiteSpace)
        signed == from <= Len(string) /\ string[from] \in {"+", "-"}
        first == IF signed THEN from + 1 ELSE from
        last == RunEnd(string, first, Digit) - 1
    IN  IF last < first THEN [nan |-> TRUE, value |-> 0]
        ELSE [nan |-> FALSE,
              value |-> (IF signed /\ string[from] = "-" THEN -1 ELSE 1)
                        * ParseDecimal(SubSeq(string, first, last))]

\* cueIndex < 0 || cueIndex >= cues.length: a comparison with NaN is false
OutOfRange(cueIndex, length) ==
    ~cueIndex.nan /\ (cueIndex.value < 0 \/ cueIndex.value >= length)

\* options.dryRun, were the option ignored (a faulty variant)
DryRunIgnored(options) == FALSE

\* if (options.dryRun)
DryRun(options) == options.dryRun # <<>> /\ options.dryRun[1]

\* options.output || file: an empty string is falsy
OutputPath(options, file) ==
    IF options.output # <<>> /\ options.output[1] # "" THEN options.output[1]
    ELSE file

\* the cues of the files: one with a text, one with a shape only, one
\* without actions
EditCuePool ==
    { Cue(<<[type |-> "presentationSlide",
             slide |-> <<[presentation |->
                 <<[uuid |-> "slide",
                    elements |-> << <<Element(
                        <<[name |-> "title",
                           text |-> <<TextPayload("bold", <<RtfOne>>)>>]>>)>> >>]>>]>>]>>),
      Cue(<<[type |-> "presentationSlide",
             slide |-> <<[presentation |->
                 <<[uuid |-> "slide",
                    elements |-> << <<Element(
                        <<[name |-> "shape", text |-> <<>>]>>)>> >>]>>]>>]>>),
      Cue(<<>>) }

\* the fields of the files: a name; a name and a date of last use; a name
\* and a field no Reader can skip
CliFields ==
    { <<[num |-> NameField, wire |-> 2, text |-> <<"A">>, ints |-> <<>>]>>,
      <<[num |-> NameField, wire |-> 2, text |-> <<"A">>, ints |-> <<>>],
        [num |-> LastDateUsedField, wire |-> 2, text |-> <<>>,
         ints |-> <<1700000000, 0>>]>>,
      <<[num |-> NameField, wire |-> 2, text |-> <<"A">>, ints |-> <<>>],
        [num |-> 99, wire |-> 7, text |-> <<>>, ints |-> <<>>]>> }

CliFiles ==
    {[fields |-> f, cues |-> cs, cueGroups |-> gs] :
        f \in CliFields, cs \in SeqsUpTo(EditCuePool, MaxEditCues),
        gs \in {<<>>, <<[name |-> "Verse 1"]>>}}

\* the file another run left at the output path
OldOutput ==
    [fields |-> <<[num |-> NameField, wire |-> 2, text |-> <<>>, ints |-> <<>>]>>,
     cues |-> <<>>, cueGroups |-> <<>>]

\* readPresentation(filePath) on the file system
readFile(system, path) ==
    IF system[path] = <<>>
    THEN [ok |-> FALSE, message |-> "ENOENT: no such file or directory"]
    ELSE LET r == decode(system[path][1].fields)
         IN  IF r.ok
             THEN [ok |-> TRUE,
                   presentation |->
                       [name |-> toObject(r.message).name,
                        lastDateUsed |-> toObject(r.message).lastDateUsed,
                        cues |-> system[path][1].cues,
                        cueGroups |-> system[path][1].cueGroups]]
             ELSE [ok |-> FALSE, message |-> "invalid wire type"]

\* the file writePresentation(filePath, presentation) leaves
writeFile(p) ==
    [fields |-> encode(p), cues |-> p.cues, cueGroups |-> p.cueGroups]

\* the strings given as --cue
CueArguments ==
    { <<"0">>, <<"1">>, <<"2">>, <<"-", "1">>, <<"x">>, <<"1", "x">>, <<>>,
      <<" ", "+", "1">> }

NoArgs == [file |-> "", cue |-> <<>>, text |-> <<>>, output |-> <<>>, dryRun |-> <<>>]

NoFiles == [p \in CliPaths |-> <<>>]

CliIdle ==
    /\ estep = "idle" /\ command = "none" /\ argv = NoArgs /\ fsys = NoFiles
    /\ writes = <<>> /\ console = <<>> /\ exitCode = 0

\* the file systems the commands start on
FileSystems ==
    {[p \in CliPaths |-> IF p = InPath THEN <<f>>
                         ELSE IF p = OutPath THEN o ELSE <<>>] :
        f \in CliFiles, o \in {<<>>, <<OldOutput>>}}

\* propresenter edit <file> --cue <index> --text <text> [--output <file>]
\* [--dry-run]
EditInit ==
    /\ estep = "start"
    /\ command = "edit"
    /\ argv \in {[file |-> f, cue |-> c, text |-> t, output |-> o, dryRun |-> d] :
                    f \in {InPath, MissingPath}, c \in CueArguments,
                    t \in {<<"H", "i">>, <<>>},
                    o \in {<<>>, <<"">>, <<OutPath>>}, d \in {<<>>, <<TRUE>>}}
    /\ fsys \in FileSystems
    /\ writes = <<>> /\ console = <<>> /\ exitCode = 0

Log(line, value) == [stream |-> "stdout", line |-> line, value |-> value]

Err(line, value) == [stream |-> "stderr", line |-> line, value |-> value]

\* the action of the edit command, from its start to the end of the process
Edit ==
    /\ estep = "start" /\ command = "edit"
    /\ estep' = "done"
    /\ LET r == readFile(fsys, argv.file)
       IN  IF ~r.ok
           THEN /\ console' = <<Err("Error", r.message)>>
                /\ exitCode' = 1
                /\ UNCHANGED <<fsys, writes>>
           ELSE
           LET cues == r.presentation.cues
               cueIndex == parseInt(argv.cue)
           IN  IF OutOfRange(cueIndex, Len(cues))
               THEN /\ console' = <<Err("Cue index out of range", cueIndex.value)>>
                    /\ exitCode' = 1
                    /\ UNCHANGED <<fsys, writes>>
               ELSE IF cueIndex.nan \/ cueIndex.value + 1 \notin 1..Len(cues)
               THEN \* cues[cueIndex] is undefined and getCueSlide reads its actions
                    /\ console' = <<Err("Error",
                           "Cannot read properties of undefined (reading 'actions')")>>
                    /\ exitCode' = 1
                    /\ UNCHANGED <<fsys, writes>>
               ELSE
               LET c == cueIndex.value + 1
                   shown == <<Log("Cue", cueIndex.value),
                              Log("Old text", getCueText(cues[c])),
                              Log("New text", argv.text)>>
               IN  IF DryRun(argv)
                   THEN /\ console' = Append(shown, Log("(dry run - no changes written)", ""))
                        /\ exitCode' = 0
                        /\ UNCHANGED <<fsys, writes>>
                   ELSE
                   LET set == setCueText(cues[c], argv.text)
                       edited == [r.presentation EXCEPT !.cues[c] = set.cue]
                       outputPath == OutputPath(argv, argv.file)
                   IN  IF ~set.ok
                       THEN /\ console' = Append(shown,
                                   Err("Error: Could not find text element in cue", ""))
                            /\ exitCode' = 1
                            /\ UNCHANGED <<fsys, writes>>
                       ELSE IF verify(edited) # ""
                       THEN /\ console' = Append(shown,
                                   Err("Error", "Invalid presentation: " \o verify(edited)))
                            /\ exitCode' = 1
                            /\ UNCHANGED <<fsys, writes>>
                       ELSE /\ fsys' = [fsys EXCEPT ![outputPath] = <<writeFile(edited)>>]
                            /\ writes' = Append(writes, outputPath)
                            /\ console' = Append(shown, Log("Written to", outputPath))
                            /\ exitCode' = 0
    /\ UNCHANGED <<command, argv>>
    /\ UNCHANGED rtfVars
    /\ UNCHANGED docVars
    /\ UNCHANGED fileVars
    /\ UNCHANGED groupVars
    /\ UNCHANGED loadVars
    /\ UNCHANGED batchVars
    /\ UNCHANGED createVars

EditNext == Edit

\* propresenter validate <file>
ValidateInit ==
    /\ estep = "start"
    /\ command = "validate"
    /\ argv \in {[NoArgs EXCEPT !.file = f] : f \in {InPath, MissingPath}}
    /\ fsys \in FileSystems
    /\ writes = <<>> /\ console = <<>> /\ exitCode = 0

\* the action of the validate command, from its start to the end of the
\* process
Validate ==
    /\ estep = "start" /\ command = "validate"
    /\ estep' = "done"
    /\ LET r == readFile(fsys, argv.file)
           reading == <<Log("Reading", argv.file)>>
       IN  IF ~r.ok
           THEN /\ console' = Append(reading, Err("Error", r.message))
                /\ exitCode' = 1
           ELSE LET errMsg == verify(r.presentation)
                    summary == reading \o
                        <<Log("Read successfully", ""),
                          Log("Name", r.presentation.name),
                          Log("Cues", Len(r.presentation.cues)),
                          Log("Groups", Len(r.presentation.cueGroups))>>
                IN  /\ console' = summary \o
                        <<IF errMsg # "" THEN Log("Validation warning", errMsg)
                          ELSE Log("Structure validates", ""),
                          Log("File is valid", "")>>
                    /\ exitCode' = 0
    /\ UNCHANGED <<command, argv, fsys, writes>>
    /\ UNCHANGED rtfVars
    /\ UNCHANGED docVars
    /\ UNCHANGED fileVars
    /\ UNCHANGED groupVars
    /\ UNCHANGED loadVars
    /\ UNCHANGED batchVars
    /\ UNCHANGED createVars

ValidateNext == Validate

----------------------------------------------------------------------------
(* Specifications *)

\* the document operations
Init == DocInit /\ RtfIdle /\ FileIdle /\ GroupIdle /\ LoadIdle /\ BatchIdle /\ CreateIdle /\ CliIdle

Next == GetCueText \/ SetCueText

Spec == Init /\ [][Next]_vars

\* the rich-text codec
InitRtf == RtfInit /\ DocIdle /\ FileIdle /\ GroupIdle /\ LoadIdle /\ BatchIdle /\ CreateIdle /\ CliIdle

SpecRtf == InitRtf /\ [][RtfNext]_vars

\* reading a file, writing the object back and reading it again
InitFile == FileInit /\ DocIdle /\ RtfIdle /\ GroupIdle /\ LoadIdle /\ BatchIdle /\ CreateIdle /\ CliIdle

SpecFile == InitFile /\ [][FileNext]_vars

\* writing a caller's object and reading it back
InitWrite == WriteInit /\ DocIdle /\ RtfIdle /\ GroupIdle /\ LoadIdle /\ BatchIdle /\ CreateIdle /\ CliIdle

SpecWrite == InitWrite /\ [][FileNext]_vars

\* grouping the cues, changing the text of one and grouping again
InitGroups == GroupInit /\ DocIdle /\ RtfIdle /\ FileIdle /\ LoadIdle /\ BatchIdle /\ CreateIdle /\ CliIdle

SpecGroups == InitGroups /\ [][GroupNext]_vars

\* calls of loadProtoDefinitions and getMessageType in one process
InitLoad == LoadInit /\ DocIdle /\ RtfIdle /\ FileIdle /\ GroupIdle /\ BatchIdle /\ CreateIdle /\ CliIdle

SpecLoad == InitLoad /\ [][LoadNext]_vars

\* the batch command in a fresh process
InitBatch == BatchInit /\ DocIdle /\ RtfIdle /\ FileIdle /\ GroupIdle /\ CreateIdle /\ CliIdle

SpecBatch == InitBatch /\ [][BatchNext]_vars

\* calls of generateUuid
InitUuid == UuidInit /\ DocIdle /\ RtfIdle /\ FileIdle /\ GroupIdle /\ LoadIdle /\ BatchIdle /\ CliIdle

SpecUuid == InitUuid /\ [][UuidNext]_vars

\* creating a presentation and reading the text of its cues
InitCreate == CreateInit /\ DocIdle /\ RtfIdle /\ FileIdle /\ GroupIdle /\ LoadIdle /\ BatchIdle /\ CliIdle

SpecCreate == InitCreate /\ [][CreateNext]_vars

\* the edit command
InitEdit == EditInit /\ DocIdle /\ RtfIdle /\ FileIdle /\ GroupIdle /\ LoadIdle /\ BatchIdle /\ CreateIdle

SpecEdit == InitEdit /\ [][EditNext]_vars

\* the validate command
InitValidate == ValidateInit /\ DocIdle /\ RtfIdle /\ FileIdle /\ GroupIdle /\ LoadIdle /\ BatchIdle /\ CreateIdle

SpecValidate == InitValidate /\ [][ValidateNext]_vars

----------------------------------------------------------------------------
(* Properties of the document operations (under Spec) *)

\* an element that carries rich-text bytes, as the claims use the word: the
\* rtfData property of its text payload is there
TextBearing(el) ==
    /\ el.element # <<>>
    /\ el.element[1].text # <<>>
    /\ el.element[1].text[1].rtfData # <<>>

\* the presentation slides of a cue, in action order
SlidesOfCue(cue) ==
    LET acts == SelectSeq(cue.actions, IsSlideAction)
    IN  [i \in 1..Len(acts) |-> acts[i].slide[1].presentation[1]]

\* the indices of the text-bearing elements of a slide, in element order
TextBearingIndices(slide) ==
    {e \in 1..Len(ElementsOf(slide)) : TextBearing(ElementsOf(slide)[e])}

SlideHasText(slide) == TextBearingIndices(slide) # {}

\* a text-bearing element whose bytes are not empty
HasBytes(el) == TextBearing(el) /\ el.element[1].text[1].rtfData[1] # <<>>

\* every text-bearing element of the slide has bytes
AllTextHasBytes(slide) ==
    \A e \in TextBearingIndices(slide) : HasBytes(ElementsOf(slide)[e])

\* the slide has a text-bearing element with bytes
SlideHasBytes(slide) ==
    \E e \in TextBearingIndices(slide) : HasBytes(ElementsOf(slide)[e])

\* no text-bearing element anywhere in the cue
NoTextInCue(cue) ==
    \A i \in 1..Len(SlidesOfCue(cue)) : ~SlideHasText(SlidesOfCue(cue)[i])

\* the first presentation slide has no text-bearing element, a later one has
OnlyLaterSlideHasText(cue) ==
    /\ Len(SlidesOfCue(cue)) >= 2
    /\ ~SlideHasText(SlidesOfCue(cue)[1])
    /\ \E i \in 2..Len(SlidesOfCue(cue)) : SlideHasText(SlidesOfCue(cue)[i])

\* the first presentation slide has no text-bearing element, a later one has
\* one with bytes
OnlyLaterSlideHasBytes(cue) ==
    /\ Len(SlidesOfCue(cue)) >= 2
    /\ ~SlideHasText(SlidesOfCue(cue)[1])
    /\ \E i \in 2..Len(SlidesOfCue(cue)) : SlideHasBytes(SlidesOfCue(cue)[i])

\* the decoded texts of the text-bearing elements of a slide from element e
\* on, the empty ones left out, with a newline between each two
RECURSIVE TextsFrom(_, _, _)
TextsFrom(slide, e, acc) ==
    IF e > Len(ElementsOf(slide)) THEN acc
    ELSE LET el == ElementsOf(slide)[e]
             t  == IF TextBearing(el)
                   THEN PlainTextOf[el.element[1].text[1].rtfData[1]]
                   ELSE <<>>
         IN  TextsFrom(slide, e + 1,
                 IF t = <<>> THEN acc
                 ELSE IF acc = <<>> THEN t
                 ELSE acc \o <<"\n">> \o t)

Min(S) == CHOOSE x \in S : \A y \in S : x <= y

\* a text the rich-text round trip returns as it is: no backslash, no brace,
\* and no white space but single spaces between two other characters
IsPlainText(t) ==
    /\ \A i \in 1..Len(t) : t[i] \notin {"\\", "{", "}"}
    /\ \A i \in 1..Len(t) : t[i] \in WhiteSpace =>
          /\ t[i] = " "
          /\ i > 1 /\ i < Len(t)
          /\ t[i + 1] \notin WhiteSpace

C6_SearchWalksEveryAction ==
    /\ (op.kind = "set" /\ NoTextInCue(before[op.cue])) => ~op.ok
    /\ (op.kind = "set" /\ OnlyLaterSlideHasBytes(before[op.cue])) => op.ok
    /\ (op.kind = "get" /\ OnlyLaterSlideHasBytes(doc[op.cue])) =>
          \E i \in 2..Len(SlidesOfCue(doc[op.cue])) :
              /\ SlideHasBytes(SlidesOfCue(doc[op.cue])[i])
              /\ op.got = TextsFrom(SlidesOfCue(doc[op.cue])[i], 1, <<>>)

\* C6, amended: the search looks at the first presentation-slide action of
\* the cue only: setCueText succeeds exactly when that slide has a
\* text-bearing element, getCueText returns that slide's text, and both
\* come back false / empty when only a later slide has text.
C6_SearchStopsAtFirstSlide ==
    /\ op.kind = "set" =>
          (op.ok <=> /\ Len(SlidesOfCue(before[op.cue])) >= 1
                     /\ SlideHasText(SlidesOfCue(before[op.cue])[1]))
    /\ op.kind = "get" =>
          op.got = IF Len(SlidesOfCue(doc[op.cue])) = 0 THEN <<>>
                   ELSE TextsFrom(SlidesOfCue(doc[op.cue])[1], 1, <<>>)
    /\ (op.kind = "set" /\ OnlyLaterSlideHasText(before[op.cue])) =>
          (~op.ok /\ doc = before)
    /\ (op.kind = "get" /\ OnlyLaterSlideHasText(doc[op.cue])) => op.got = <<>>

\* setCueText failed on a cue whose second presentation slide has text
C6_Witness ==
    /\ op.kind = "set" /\ ~op.ok
    /\ OnlyLaterSlideHasBytes(before[op.cue])

\* C7 as the spec states it, on slides whose text elements all have bytes:
\* getCueText is the decoded text of the first text-bearing element only.
C7_TextOfFirstElementOnly ==
    op.kind = "get" =>
        LET slides == SlidesOfCue(doc[op.cue])
        IN  (slides # <<>> /\ SlideHasText(slides[1]) /\ AllTextHasBytes(slides[1])) =>
                LET e == Min(TextBearingIndices(slides[1]))
                IN  op.got = PlainTextOf[ElementsOf(slides[1])[e]
                                             .element[1].text[1].rtfData[1]]

\* C7, amended: getCueText is the text of every text-bearing element of the
\* first presentation slide, in element order, the empty ones left out and
\* a newline between each two; the second element's text follows the
\* first's.
C7_TextOfAllElementsJoined ==
    op.kind = "get" =>
        LET slides == SlidesOfCue(doc[op.cue])
        IN  /\ op.got = IF slides = <<>> THEN <<>> ELSE TextsFrom(slides[1], 1, <<>>)
            /\ \A e1, e2 \in 1..Len(IF slides = <<>> THEN <<>> ELSE ElementsOf(slides[1])) :
                  (/\ e1 < e2
                   /\ TextBearingIndices(slides[1]) = {e1, e2}
                   /\ ElementsOf(slides[1])[e1].element[1].text[1].rtfData = <<RtfOne>>
                   /\ ElementsOf(slides[1])[e2].element[1].text[1].rtfData = <<RtfTwo>>)
                  => op.got = <<"O", "n", "e", "\n", "T", "w", "o">>

\* getCueText on a slide with two text elements returned both texts
C7_Witness ==
    /\ op.kind = "get"
    /\ op.got = <<"O", "n", "e", "\n", "T", "w", "o">>
    /\ Cardinality(TextBearingIndices(SlidesOfCue(doc[op.cue])[1])) = 2

\* the text the bytes the cue holds now decode to
CurrentText(cue) ==
    IF SlidesOfCue(cue) = <<>> THEN <<>>
    ELSE TextsFrom(SlidesOfCue(cue)[1], 1, <<>>)

\* the bytes of the first text-bearing element of the cue's first slide
FirstBytes(cue) ==
    LET slide == SlidesOfCue(cue)[1]
    IN  ElementsOf(slide)[Min(TextBearingIndices(slide))].element[1].text[1].rtfData[1]

\* C21: after any sequence of setCueText and getCueText calls, getCueText
\* is what the bytes the cue holds now decode to; a successful setCueText
\* leaves the markup of its text in the first text element whatever was set
\* before (the last write wins), and a failed one changes nothing
C21_TextComesFromCurrentBytes ==
    /\ op.kind = "get" => (op.got = CurrentText(doc[op.cue]) /\ doc = before)
    /\ (op.kind = "set" /\ op.ok) =>
          /\ FirstBytes(doc[op.cue]) = NewRtfData(op.text)
          /\ getCueText(doc[op.cue]) = CurrentText(doc[op.cue])
    /\ (op.kind = "set" /\ ~op.ok) =>
          (doc = before /\ getCueText(doc[op.cue]) = CurrentText(before[op.cue]))

\* getCueText returned a text that only an earlier setCueText can have put
\* into the cue
C21_Witness ==
    /\ op.kind = "get"
    /\ op.got = <<"H", "i">>
    /\ FirstBytes(doc[op.cue]) = NewRtfData(<<"H", "i">>)

\* the indices of the elements of a slide whose rtfData holds bytes
WithBytes(slide) ==
    {e \in TextBearingIndices(slide) : HasBytes(ElementsOf(slide)[e])}

\* C26: an element whose rtfData is there but empty is passed over:
\* setCueText writes the first element of the slide whose rtfData holds
\* bytes and returns false when there is none, and getCueText reads the
\* elements that hold bytes
C26_EmptyBytesSkipped ==
    /\ op.kind = "set" =>
          LET slides == SlidesOfCue(before[op.cue])
          IN  /\ op.ok <=> (slides # <<>> /\ WithBytes(slides[1]) # {})
              /\ op.ok =>
                    FirstBytes(doc[op.cue]) = NewRtfData(op.text)
                    /\ Min(TextBearingIndices(slides[1])) = Min(WithBytes(slides[1]))
    /\ op.kind = "get" =>
          LET slides == SlidesOfCue(doc[op.cue])
          IN  (slides # <<>> /\ WithBytes(slides[1]) = {}) => op.got = <<>>

----------------------------------------------------------------------------
(* Properties of getCuesByGroup (under SpecGroups) *)

Grouped == gstep \in {"grouped", "regrouped"}

\* the identifier names a cue of the list
Resolvable(cues, id) ==
    id # "" /\ \E i \in 1..Len(cues) : UuidString(cues[i]) = id

IdResolves(id) == Resolvable(pres.cues, id.string)

\* the cue sequence is that of the group: one cue for each identifier that
\* names a cue, in the order of the identifiers
IsCuesOfGroup(value, group) ==
    LET kept == SelectSeq(group.cueIdentifiers, IdResolves)
    IN  /\ Len(value) = Len(kept)
        /\ \A j \in 1..Len(kept) : UuidString(pres.cues[value[j]]) = kept[j].string

\* no later group goes by the name of group g
LastOfItsName(g) ==
    \A h \in (g + 1)..Len(pres.cueGroups) :
        GroupName(pres.cueGroups[h]) # GroupName(pres.cueGroups[g])

\* C13: an identifier that names no cue of the document is left out of its
\* group's cue sequence; the other identifiers of the group and the groups
\* after it are resolved all the same.
C13_DanglingIdentifierSkipped ==
    Grouped =>
        \A g \in 1..Len(pres.cueGroups) :
            LastOfItsName(g) =>
                \E e \in 1..Len(byGroup) :
                    /\ byGroup[e].key = GroupName(pres.cueGroups[g])
                    /\ IsCuesOfGroup(byGroup[e].value, pres.cueGroups[g])

\* a group whose only identifier names no cue, then a group with a cue
C13_Witness ==
    /\ gstep = "grouped"
    /\ Len(pres.cueGroups) = 2
    /\ pres.cueGroups[1].cueIdentifiers = <<[string |-> "u9"]>>
    /\ byGroup = <<[key |-> "Verse 1", value |-> <<>>],
                   [key |-> "Chorus", value |-> <<1>>]>>

\* C14: the Map has one entry for each cue group, in document order, each
\* with the cues of its own group, also when two groups go by one name or by
\* none.
C14_OneEntryPerGroup ==
    Grouped =>
        /\ Len(byGroup) = Len(pres.cueGroups)
        /\ \A g \in 1..Len(pres.cueGroups) :
              g <= Len(byGroup) => IsCuesOfGroup(byGroup[g].value, pres.cueGroups[g])

\* the text of every cue of every entry, as getCueText reads it now
Shown ==
    [e \in 1..Len(byGroup) |->
        [k \in 1..Len(byGroup[e].value) |-> getCueText(pres.cues[byGroup[e].value[k]])]]

\* Map entries, identifiers and cues of the example
IsExample ==
    /\ Len(pres.cueGroups) = 1
    /\ GroupName(pres.cueGroups[1]) = "Verse 1"
    /\ pres.cueGroups[1].cueIdentifiers = <<[string |-> "u1"], [string |-> "u2"]>>
    /\ textsBefore = <<LineOne, LineTwo>>
    /\ gop = [cue |-> 1, text |-> Changed, ok |-> TRUE]

\* C15 as the spec states it, for the texts the rich-text round trip returns
\* unchanged: after setCueText(cue, t) succeeded, the cue shows t wherever
\* getCuesByGroup lists it, and every other cue its previous text.
C15_RegroupedShowsTextSet ==
    (gstep = "regrouped" /\ gop.ok /\ IsPlainText(gop.text)) =>
        \A e \in 1..Len(byGroup) : \A k \in 1..Len(byGroup[e].value) :
            Shown[e][k] = IF byGroup[e].value[k] = gop.cue THEN gop.text
                          ELSE textsBefore[byGroup[e].value[k]]

\* C15, amended: getCuesByGroup lists the document's own cues in the order
\* of each group's identifiers; after setCueText(cue, t) the cue shows, where
\* it is listed, rtfToText(textToRtf(t)) followed by the texts of the other
\* text elements of its slide, and every other cue shows its previous text;
\* in the example "Verse 1" -> ["Line one", "Line two"] becomes
\* ["Changed", "Line two"].
C15_RegroupedShowsChangedCue ==
    gstep = "regrouped" =>
        /\ \A e \in 1..Len(byGroup) : \A k \in 1..Len(byGroup[e].value) :
              LET c == byGroup[e].value[k]
              IN  Shown[e][k] =
                    IF c = gop.cue /\ gop.ok
                    THEN LET slide == SlidesOfCue(pres.cues[c])[1]
                         IN  TextsFrom(slide, Min(TextBearingIndices(slide)) + 1,
                                       PlainTextOf[NewRtfData(gop.text)])
                    ELSE textsBefore[c]
        /\ \A g \in 1..Len(pres.cueGroups) :
              LastOfItsName(g) =>
                  \E e \in 1..Len(byGroup) :
                      /\ byGroup[e].key = GroupName(pres.cueGroups[g])
                      /\ IsCuesOfGroup(byGroup[e].value, pres.cueGroups[g])
        /\ IsExample =>
              /\ Len(byGroup) = 1 /\ byGroup[1].key = "Verse 1"
              /\ Shown[1] = <<Changed, LineTwo>>

\* the example: "Verse 1" shows "Changed" and "Line two" after the change
C15_Witness ==
    /\ gstep = "regrouped"
    /\ IsExample
    /\ Shown = << <<Changed, LineTwo>> >>

----------------------------------------------------------------------------
(* Properties of the rich-text codec (under SpecRtf) *)

\* a plain text was encoded by textToRtf and the markup decoded by rtfToText
RoundTripDone == phase = "done" /\ origin = "encoded"

\* a given markup was decoded by rtfToText
DecodeDone == phase = "done" /\ origin = "raw"

Special == {"\\", "{", "}"}

\* how many \par and \line control words s holds: the word, not followed by
\* a letter or a digit
BreakWords(s) ==
    Cardinality({i \in 1..Len(s) :
        \E w \in {ParWord, LineWord} :
            /\ StartsWithAt(s, i, w)
            /\ (i + Len(w) > Len(s) \/ s[i + Len(w)] \notin WordChar)})

NewLines(s) == Cardinality({i \in 1..Len(s) : s[i] = "\n"})

\* C8 as the spec states it: every string without backslash, brace and
\* carriage return comes back from rtfToText(textToRtf(s)) as it is, newlines,
\* repeated spaces and leading or trailing white space included.
C8_RoundTripAnyWhiteSpace ==
    (RoundTripDone /\ \A i \in 1..Len(src) : src[i] \notin Special \cup {"\r"})
        => out = src

\* C9: a backslash or brace of the text is escaped by textToRtf and comes
\* back from rtfToText as that character, at its place: the decoded text is
\* as long as the text, and equal to it at every backslash and brace (the
\* text being plain otherwise).
C9_EscapedCharactersRecovered ==
    (/\ RoundTripDone
     /\ \E i \in 1..Len(src) : src[i] \in Special
     /\ IsPlainText(SelectSeq(src, LAMBDA c : c \notin Special))
     /\ \A i \in 1..Len(src) : src[i] \notin WhiteSpace)
        => /\ Len(out) = Len(src)
           /\ \A i \in 1..Len(src) : src[i] \in Special => out[i] = src[i]

\* the characters a decoded text is made of
Chars == {fromCharCode(n) : n \in 0..255}

\* C11: rtfToText returns a string for every input, malformed markup
\* included: the empty input gives the empty text, a lone backslash and an
\* escape cut short stay as they are, unbalanced braces are dropped, text
\* without preamble is returned, a preamble never closed gives the empty text.
C11_DecodeNeverFails ==
    DecodeDone =>
          /\ \A i \in 1..Len(out) : out[i] \in Chars
          /\ rtf = <<>> => out = <<>>
          /\ rtf = <<"\\">> => out = <<"\\">>
          /\ rtf = <<"\\", "'", "4">> => out = <<"\\", "'", "4">>
          /\ rtf = <<"{", "a">> => out = <<"a">>
          /\ rtf = <<"}", "{", "{">> => out = <<>>
          /\ rtf = <<"a", "4">> => out = <<"a", "4">>
          /\ rtf = RtfHeader \o <<"a">> => out = <<>>

\* a truncated escape \'4 was decoded and came back as it is
C11_Witness ==
    /\ DecodeDone
    /\ rtf = <<"a", "\\", "'", "4">>
    /\ out = rtf

\* the nesting depth at the end of s, counting the braces that no backslash
\* escapes, from index i at depth d; -1 once a group is closed that was never
\* opened
RECURSIVE BraceDepthFrom(_, _, _)
BraceDepthFrom(s, i, d) ==
    IF d < 0 THEN -1
    ELSE IF i > Len(s) THEN d
    ELSE IF s[i] = "\\" THEN BraceDepthFrom(s, i + 2, d)
    ELSE IF s[i] = "{" THEN BraceDepthFrom(s, i + 1, d + 1)
    ELSE IF s[i] = "}" THEN BraceDepthFrom(s, i + 1, d - 1)
    ELSE BraceDepthFrom(s, i + 1, d)

\* the unescaped braces of s are balanced
Balanced(s) == BraceDepthFrom(s, 1, 0) = 0

\* how many escaped backslashes and braces s holds, from index i on
RECURSIVE EscapedFrom(_, _)
EscapedFrom(s, i) ==
    IF i >= Len(s) THEN 0
    ELSE IF s[i] = "\\"
         THEN (IF s[i + 1] \in Special THEN 1 ELSE 0) + EscapedFrom(s, i + 2)
         ELSE EscapedFrom(s, i + 1)

\* textToRtf has returned the markup of the text src
Encoded == origin = "encoded" /\ phase \in {"rtf", "done"}

PlainFontName ==
    \E fontName \in FontNames, fontSize \in FontSizes :
        /\ \A i \in 1..Len(fontName) : fontName[i] \notin Special
        /\ rtf = textToRtf(src, fontName, fontSize)

HiParThere == RawDoc(<<"H", "i">> \o ParWord \o <<" ", "t", "h", "e", "r", "e">>)

\* how many \par and \line control words of s stand between two words: after
\* the "i" of "Hi", before a space and a letter
BreaksBetweenWords(s) ==
    Cardinality({i \in 2..Len(s) :
        \E w \in {ParWord, LineWord} :
            /\ s[i - 1] = "i"
            /\ StartsWithAt(s, i, w)
            /\ StartsWithAt(s, i + Len(w), <<" ", "H">>)
               \/ StartsWithAt(s, i + Len(w), <<" ", "t">>)})

\* C10: every \par and \line control word between two words of the markup is
\* a newline of the text rtfToText returns; the example decodes to "Hi",
\* newline, "there".
C10_LineBreaksBecomeNewlines ==
    DecodeDone =>
        /\ NewLines(out) >= BreaksBetweenWords(rtf)
        /\ rtf = HiParThere => out = <<"H", "i", "\n", "t", "h", "e", "r", "e">>

\* p occurs in s
Contains(s, p) == \E i \in 1..Len(s) : StartsWithAt(s, i, p)

\* C24: the font table, the color table and the style sheet go as whole
\* groups, their nested groups included: of markup whose font table has two
\* entries, the text returned holds no font name and nothing else of a
\* table
C24_TablesRemovedWhole ==
    DecodeDone =>
        \A ts \in SeqsUpTo(Tables, 1), body \in TableBodies :
            (rtf = TableDoc(Flatten(ts), body)
               /\ \E i \in 1..Len(ts) : ts[i] = FontTblTwo) =>
                /\ ~Contains(out, <<"T", "i", "m", "e", "s">>)
                /\ ~Contains(out, <<"A", "r", "i", "a", "l">>)
                /\ ~Contains(out, <<"N", "o", "r", "m", "a", "l">>)
                /\ ~Contains(out, <<";">>)

\* what a word or an escape of the body stands for
Literal(tok) ==
    IF Len(tok) = 4 /\ tok[1] = "\\" /\ tok[2] = "'"
    THEN <<fromCharCode(16 * HexVal[tok[3]] + HexVal[tok[4]])>>
    ELSE tok

\* C25: hex escapes are resolved last: the character an escape stands for
\* is in the text returned where the escape was, a backslash before "par"
\* is no line break, a brace is not removed, and a space is neither
\* collapsed with its neighbour nor trimmed
C25_EscapesResolvedLast ==
    DecodeDone =>
        \A toks \in SeqsUpTo(EscapeTokens, MaxTokens) :
            rtf = RawDoc(Flatten(toks)) =>
                out = Flatten([i \in 1..Len(toks) |-> Literal(toks[i])])

\* an escaped backslash before "par" and an escaped space at the end came
\* out as they are
C25_Witness ==
    /\ DecodeDone
    /\ rtf = RawDoc(BackslashEscape \o <<"p", "a", "r">> \o <<"\\", "'", "2", "0">>)
    /\ out = <<"\\", "p", "a", "r", " ">>

----------------------------------------------------------------------------
(* Properties of readPresentation / writePresentation (under SpecFile) *)

\* the fields of a file whose number the schema does not declare
UnknownFields(buffer) ==
    SelectSeq(buffer, LAMBDA f : f.num \notin {NameField, LastDateUsedField})

\* C1: writePresentation of the object readPresentation returned, unchanged,
\* throws nothing, and the object read from the written file equals the
\* object first read.  (The object has no place for unrecognized fields; what
\* becomes of them is C2.)
C1_WriteOfReadThenReadIsIdentity ==
    /\ step # "writeFailed"
    /\ step = "reread" => presentation = firstRead

\* C2: the file written from the object readPresentation returned, unchanged,
\* holds every field of the file read whose number the schema does not
\* declare, content unchanged.
C2_UnknownFieldsKept ==
    step = "written" => UnknownFields(disk) = UnknownFields(input)

----------------------------------------------------------------------------
(* Properties of writePresentation on a caller's object (under SpecWrite) *)

\* the object holds a value of a type its field does not allow
ViolatesType(p) ==
    /\ p.lastDateUsed # <<>>
    /\ p.lastDateUsed[1].seconds.type \in {"string", "boolean"}

\* C20: writePresentation of an object that holds a value of the wrong type
\* throws an error that names the field, and neither creates nor changes the
\* file: the value is not coerced and written
C20_InvalidTreeNotWritten ==
    [][(step \in {"read", "tree"} /\ ViolatesType(presentation[1])) =>
          /\ step' = "writeFailed"
          /\ thrown' = "Invalid presentation: lastDateUsed.seconds: integer|Long expected"
          /\ disk' = disk /\ onDisk' = onDisk]_vars

\* the write of an object whose seconds is a string, to a path that held no
\* file, has thrown
C20_Witness ==
    /\ step = "writeFailed"
    /\ ~onDisk /\ disk = <<>>
    /\ presentation[1].lastDateUsed[1].seconds.type = "string"
    /\ thrown = "Invalid presentation: lastDateUsed.seconds: integer|Long expected"

----------------------------------------------------------------------------
(* Properties of the schema cache (under SpecLoad) *)

\* the call has been given a Root
HasRoot(p) == calls[p].at \in {"done", "type", "noSuchType"}

\* every load of the Root given to the call had settled when it was given
LoadedWhenGiven(p) == calls[p].seen = ProtoFiles \ broken

\* C16: no caller is given the schema Root before every schema file has
\* finished loading, a second call made while the first awaits its loads
\* included, and the Root is not changed after a caller was given it
C16_RootCompleteWhenObtained ==
    \A p \in Calls :
        HasRoot(p) => /\ LoadedWhenGiven(p)
                      /\ roots[calls[p].root] = calls[p].seen

\* C17: whatever the interleaving of the calls, at most one Root is ever
\* constructed, every call resolves to that Root, and the cache variable
\* never changes once it is set
C17_OneRootForEveryCall ==
    /\ [](/\ Len(roots) <= 1
          /\ \A p \in Calls : HasRoot(p) => calls[p].root = 1 /\ protoRoot = 1)
    /\ [][protoRoot # 0 => protoRoot' = protoRoot]_vars

\* two calls were given the Root, one of them while the other awaited a load
C17_Witness ==
    \E p, q \in Calls :
        /\ p # q /\ HasRoot(p) /\ HasRoot(q)
        /\ broken = {}
        /\ calls[p].seen = ProtoFiles
        /\ calls[q].seen # ProtoFiles

\* C18: when the schema files cannot be loaded the call fails instead of
\* returning a Root, and no Root is left in the cache once the load is over
C18_FailedLoadIsFatal ==
    broken = ProtoFiles =>
        /\ \A p \in Calls : ~HasRoot(p)
        /\ (\A p \in Calls : calls[p].at # "loading") => protoRoot = 0

----------------------------------------------------------------------------
(* Properties of the batch command (under SpecBatch) *)

\* readPresentation of the path succeeds in this process
CanBeRead(path) ==
    /\ PresentationFile \notin broken
    /\ DiskOf(path) # <<>>
    /\ \A i \in 1 .. Len(DiskOf(path)[1]) :
           LET f == DiskOf(path)[1][i]
           IN  f.num \in {NameField, LastDateUsedField} \/ f.wire \in {0, 2}

\* the name readPresentation gives for the file: its last name field
RECURSIVE NameOf(_)
NameOf(buffer) ==
    IF buffer = <<>> THEN <<>>
    ELSE IF buffer[Len(buffer)].num = NameField THEN buffer[Len(buffer)].text
    ELSE NameOf(SubSeq(buffer, 1, Len(buffer) - 1))

\* one result for every path that can be read, in the order of the paths
RECURSIVE ResultsOf(_)
ResultsOf(paths) ==
    IF paths = <<>> THEN <<>>
    ELSE (IF CanBeRead(Head(paths))
          THEN <<[file |-> Head(paths)[Len(Head(paths))],
                  name |-> NameOf(DiskOf(Head(paths))[1])]>>
          ELSE <<>>)
         \o ResultsOf(Tail(paths))

\* C19: in the batch command every file that can be read gives exactly one
\* result, in input order, however many other files fail and wherever they
\* stand in the list, and the schema cache is what it is without a failure
C19_FailuresAreLocal ==
    /\ results = ResultsOf(SubSeq(files, 1, fileIndex - 1))
    /\ Len(results) + Len(warnings) = fileIndex - 1
    /\ fileIndex > 1 => protoRoot = 1 /\ roots = <<ProtoFiles \ broken>>

\* a file was read between two that failed
C19_Witness ==
    /\ Len(files) = 3 /\ fileIndex = 4
    /\ ~CanBeRead(files[1]) /\ CanBeRead(files[2]) /\ ~CanBeRead(files[3])
    /\ files[1] # files[3]
    /\ Len(results) = 1 /\ results[1].file = "a.pro"

----------------------------------------------------------------------------
(* Properties of generateUuid (under SpecUuid) *)

UpperHex == {"0", "1", "2", "3", "4", "5", "6", "7", "8", "9",
             "A", "B", "C", "D", "E", "F"}

\* C23: every value generateUuid returns is 8-4-4-4-12 upper-case
\* hexadecimal digits with hyphens between the groups, the third group
\* starting with 4 and the fourth with 8, 9, A or B, whatever Math.random
\* returns
C23_UuidHasVersion4Shape ==
    lastUuid # <<>> =>
        LET u == lastUuid[1].string
        IN  /\ Len(u) = 36
            /\ \A i \in 1..Len(u) :
                   IF i \in {9, 14, 19, 24} THEN u[i] = "-" ELSE u[i] \in UpperHex
            /\ u[15] = "4"
            /\ u[20] \in {"8", "9", "A", "B"}

\* a value that starts with F0 and whose fourth group starts with B
C23_Witness ==
    /\ lastUuid # <<>>
    /\ lastUuid[1].string[1] = "F"
    /\ lastUuid[1].string[20] = "B"
    /\ lastUuid[1].string[2] = "0"

----------------------------------------------------------------------------
(* Properties of createPresentation (under SpecCreate) *)

\* the slides of the options, section after section
AllSlides(options) ==
    Flatten([s \in 1..Len(options.sections) |-> options.sections[s].slides])

\* how many slides the sections before section s have
RECURSIVE SlidesBefore(_, _)
SlidesBefore(sections, s) ==
    IF s <= 1 THEN 0
    ELSE SlidesBefore(sections, s - 1) + Len(sections[s - 1].slides)

\* the graphics element of a created cue
CreatedElement(cue) ==
    cue.actions[1].slide[1].presentation[1].baseSlide[1].elements[1][1].element[1]

\* C22: getCueText on a cue of a presentation createPresentation built
\* returns the slide text the cue was created with, and a text that is not
\* empty whenever the slide text is not
C22_CreatedCueTextReadsBack ==
    ctext # <<>> =>
        LET given == AllSlides(copts)[ctext[1].cue]
        IN  /\ ctext[1].got = given.text
            /\ given.text # <<>> => ctext[1].got # <<>>

\* the cues of the presentation have identifiers that differ
DistinctCueIdentifiers(p) ==
    \A c, d \in 1..Len(p.cues) : c # d => p.cues[c].uuid # p.cues[d].uuid

\* C29: the presentation has one cue for each slide given, section after
\* section and slide after slide, and one cue group for each section, in
\* order; the cueIdentifiers of a group are the identifiers of the cues of
\* its section, in order; so, the identifiers of the cues being distinct,
\* every reference of a group names exactly one cue and every cue is named
\* by exactly one reference
C29_OneCuePerSlideOneGroupPerSection ==
    created # <<>> =>
        LET p == created[1]
            sections == copts.sections
            refs == {<<s, i>> \in (1..Len(p.cueGroups)) \X (1..Len(p.cues)) :
                        i <= Len(p.cueGroups[s].cueIdentifiers)}
        IN  /\ Len(p.cues) = Len(AllSlides(copts))
            /\ \A c \in 1..Len(p.cues) :
                   CreatedElement(p.cues[c]).name = AllSlides(copts)[c].text
            /\ Len(p.cueGroups) = Len(sections)
            /\ \A s \in 1..Len(sections) :
                   /\ p.cueGroups[s].group[1].name = sections[s].name
                   /\ Len(p.cueGroups[s].cueIdentifiers) = Len(sections[s].slides)
                   /\ \A i \in 1..Len(sections[s].slides) :
                          LET cue == p.cues[SlidesBefore(sections, s) + i]
                          IN  /\ p.cueGroups[s].cueIdentifiers[i] = cue.uuid[1]
                              /\ cue.name = sections[s].name \o " - Slide " \o ToString(i)
            /\ DistinctCueIdentifiers(p) =>
                   /\ \A r \in refs :
                          Cardinality({c \in 1..Len(p.cues) :
                              p.cues[c].uuid[1] = p.cueGroups[r[1]].cueIdentifiers[r[2]]}) = 1
                   /\ \A c \in 1..Len(p.cues) :
                          Cardinality({r \in refs :
                              p.cueGroups[r[1]].cueIdentifiers[r[2]] = p.cues[c].uuid[1]}) = 1

\* a presentation of two sections of two slides each, with four cues
\* whose identifiers differ
C29_Witness ==
    /\ created # <<>>
    /\ Len(copts.sections) = 2
    /\ \A s \in 1..2 : Len(copts.sections[s].slides) = 2
    /\ Len(created[1].cues) = 4
    /\ DistinctCueIdentifiers(created[1])
    /\ created[1].cueGroups[2].cueIdentifiers[1] = created[1].cues[3].uuid[1]

\* how often the chord stands at the position in a list of chords
TimesIn(chords, x) ==
    Cardinality({i \in 1..Len(chords) : chords[i] = x})

\* the customAttributes of a created cue
AttributesOf(cue) == CreatedElement(cue).text[1].attributes.customAttributes

\* C30: of a slide created with chords at positions of its text, given in
\* any order, the ranges are ordered by start, each ends where the next
\* starts, the last ends at the length of the text, none ends before it
\* starts, and each chord of the list has its range; of a slide created
\* without chords there is the one range from 0 to the length of the text,
\* without a chord; the list the caller gave is left as it was
C30_ChordRangesTileTheText ==
    /\ [](created # <<>> =>
            \A c \in 1..Len(created[1].cues) :
                LET given == AllSlides(copts)[c]
                    ca == AttributesOf(created[1].cues[c])
                IN  IF given.chords # <<>> /\ given.chords[1] # <<>>
                    THEN /\ Len(ca) = Len(given.chords[1])
                         /\ \A i \in 1..(Len(ca) - 1) :
                                /\ ca[i].range.start <= ca[i + 1].range.start
                                /\ ca[i].range.end = ca[i + 1].range.start
                         /\ ca[Len(ca)].range.end = Len(given.text)
                         /\ \A i \in 1..Len(ca) : ca[i].range.start <= ca[i].range.end
                         /\ \A x \in ChordPool :
                                TimesIn(given.chords[1], x) =
                                    Cardinality({i \in 1..Len(ca) :
                                        /\ ca[i].range.start = x.position
                                        /\ ca[i].chord = <<x.chord>>})
                    ELSE ca = <<[range |-> [start |-> 0, end |-> Len(given.text)],
                                 chord |-> <<>>]>>)
    /\ [][copts' = copts]_vars

\* the chords were given last position first and the ranges run from the
\* start of the text to its end
C30_Witness ==
    /\ created # <<>>
    /\ Len(created[1].cues) = 1
    /\ AllSlides(copts)[1].chords =
          << <<[position |-> 2, chord |-> "F"], [position |-> 0, chord |-> "Am"],
               [position |-> 1, chord |-> "F"]>> >>
    /\ AttributesOf(created[1].cues[1]) =
          <<[range |-> [start |-> 0, end |-> 1], chord |-> <<"Am">>],
            [range |-> [start |-> 1, end |-> 2], chord |-> <<"F">>],
            [range |-> [start |-> 2, end |-> 2], chord |-> <<"F">>]>>

----------------------------------------------------------------------------
(* Properties of the edit command (under SpecEdit) *)

\* the run reads its file, --cue names a cue of it, --dry-run is not set and
\* setCueText on that cue returns true
MayWrite ==
    LET r == readFile(fsys, argv.file)
    IN  /\ r.ok
        /\ ~parseInt(argv.cue).nan
        /\ parseInt(argv.cue).value \in 0..(Len(r.presentation.cues) - 1)
        /\ argv.dryRun # <<TRUE>>
        /\ setCueText(r.presentation.cues[parseInt(argv.cue).value + 1], argv.text).ok

\* C27: a run of the edit command writes a file only when the cue index is
\* one of 0..cues.length-1, --dry-run is not set and setCueText returned
\* true, and then writes the output path and no other; in every other run
\* (the index out of range or not a number, a dry run, no text element in
\* the cue, the file not read) nothing is written and every file, the input
\* file among them, is as it was
C27_EditWritesOnlyWhenAllowed ==
    [][(command = "edit" /\ estep = "start" /\ estep' = "done") =>
          /\ writes' # writes => MayWrite
          /\ \A p \in CliPaths :
                 fsys'[p] # fsys[p] => MayWrite /\ writes' = <<p>>
          /\ ~MayWrite => fsys' = fsys /\ writes' = writes]_vars

\* the second cue of the file was given a new text and the file written in
\* place, the file at the other path left alone
C27_Witness ==
    /\ command = "edit" /\ estep = "done"
    /\ argv.cue = <<"1", "x">>
    /\ argv.output = <<"">>
    /\ argv.text = <<"H", "i">>
    /\ writes = <<InPath>>
    /\ fsys[OutPath] = <<OldOutput>>
    /\ RtfDataOf(ElementsOf(getCueSlide(fsys[InPath][1].cues[2])[1])[1])
          = <<NewRtfData(<<"H", "i">>)>>
    /\ exitCode = 0

----------------------------------------------------------------------------
(* Properties of the validate command (under SpecValidate) *)

\* the run printed the line
Printed(line) == \E i \in 1..Len(console) : console[i].line = line

\* C28: the validate command reports the file as valid, with a normal exit,
\* only if the file was read and the structure read verifies against the
\* schema: a run in which verify returns an error does not end with
\* "File is valid"
C28_ValidOnlyIfVerifies ==
    (command = "validate" /\ estep = "done" /\ Printed("File is valid")
        /\ exitCode = 0) =>
        LET r == readFile(fsys, argv.file)
        IN  r.ok /\ verify(r.presentation) = ""

====
